---- MODULE Spec2Model ----
(***************************************************************************)
(* Model of the episode-renamer tool (tgandrews/tools):                    *)
(*   src/episode-renamer/src/lib.ts   the pure core                        *)
(*   src/unnamed/part_001             the CLI with show-name inference      *)
(*   src/episode-renamer/src/index.ts the CLI that takes the show name as   *)
(*                                    an argument                          *)
(*                                                                         *)
(* Encoding of values.                                                     *)
(*   - A JavaScript string is a sequence of one-character strings:         *)
(*     "a.b" is <<"a", ".", "b">> and "" is <<>>.                          *)
(*   - null (for `string | null`) is the sequence Null == <<"null">>; it   *)
(*     is no string, because its only element is not a single character.   *)
(*   - an absent / undefined list of strings is Undefined.                 *)
(*   - regular expressions are modelled by the matching they perform.      *)
(***************************************************************************)
EXTENDS Integers, Sequences, FiniteSets, TLC

\* ------------------------------------------------------------------------
\* JavaScript string primitives used by lib.ts
\* ------------------------------------------------------------------------

Null == <<"null">>

Undefined == << <<"undefined">> >>

LowerLetters ==
  <<"a","b","c","d","e","f","g","h","i","j","k","l","m",
    "n","o","p","q","r","s","t","u","v","w","x","y","z">>

UpperLetters ==
  <<"A","B","C","D","E","F","G","H","I","J","K","L","M",
    "N","O","P","Q","R","S","T","U","V","W","X","Y","Z">>

Digits == {"0","1","2","3","4","5","6","7","8","9"}

\* \s of the regular expressions and the characters String.prototype.trim
\* removes: the white space and the line terminators of ECMAScript.  A
\* character that has no plain spelling is written by its code point.
Whitespace ==
  { " ", "\t", "\n", "\r", "\f", "U+000B", "U+00A0", "U+1680",
    "U+2000", "U+2001", "U+2002", "U+2003", "U+2004", "U+2005", "U+2006",
    "U+2007", "U+2008", "U+2009", "U+200A", "U+2028", "U+2029", "U+202F",
    "U+205F", "U+3000", "U+FEFF" }

\* the characters `.` of a regular expression does not match
LineTerminators == {"\n", "\r", "U+2028", "U+2029"}

\* [._-]
Separators == {".", "_", "-"}

\* [\[\(] and [\]\)]
OpenBrackets == {"[", "("}

CloseBrackets == {"]", ")"}

MinOf(S) == CHOOSE x \in S : \A y \in S : x <= y

MaxOf(S) == CHOOSE x \in S : \A y \in S : x >= y

UpperOf == [c \in {LowerLetters[i] : i \in 1..26} |->
              UpperLetters[CHOOSE i \in 1..26 : LowerLetters[i] = c]]

LowerOf == [c \in {UpperLetters[i] : i \in 1..26} |->
              LowerLetters[CHOOSE i \in 1..26 : UpperLetters[i] = c]]

\* c.toUpperCase() of one character: a sequence, since the upper case of the
\* sharp s is the two letters SS (it has no lower case other than itself)
toUpperCaseChar(c) ==
  IF c = "ß" THEN <<"S", "S">>
  ELSE IF c \in DOMAIN UpperOf THEN <<UpperOf[c]>>
  ELSE <<c>>

toLowerCaseChar(c) == IF c \in DOMAIN LowerOf THEN LowerOf[c] ELSE c

toUpperCase(s) ==
  LET RECURSIVE upper(_)
      upper(i) == IF i > Len(s) THEN <<>>
                  ELSE toUpperCaseChar(s[i]) \o upper(i + 1)
  IN upper(1)

toLowerCase(s) == [i \in 1..Len(s) |-> toLowerCaseChar(s[i])]

\* s.slice(from) with a 0-based `from`
slice(s, from) == SubSeq(s, from + 1, Len(s))

\* nothing is trimmed
trimNothing(s) == s

\* s.trim()
trim(s) ==
  LET keep == {i \in 1..Len(s) : s[i] \notin Whitespace}
  IN  IF keep = {} THEN <<>> ELSE SubSeq(s, MinOf(keep), MaxOf(keep))

\* s.split(/\s+/): every maximal run of whitespace is one delimiter; a
\* delimiter at the start or the end leaves an empty string there, and
\* "".split(/\s+/) is [""]
RECURSIVE splitWhitespace(_)
splitWhitespace(s) ==
  LET ws == {i \in 1..Len(s) : s[i] \in Whitespace}
  IN  IF ws = {} THEN <<s>>
      ELSE LET i    == MinOf(ws)
               rest == {j \in (i+1)..Len(s) : s[j] \notin Whitespace}
               j    == IF rest = {} THEN Len(s) + 1 ELSE MinOf(rest)
           IN  <<SubSeq(s, 1, i - 1)>> \o splitWhitespace(SubSeq(s, j, Len(s)))

\* .filter(word => word.length > 0)
nonEmptyWord(word) == Len(word) > 0

\* words.join(sep)
RECURSIVE join(_, _)
join(words, sep) ==
  IF Len(words) = 0 THEN <<>>
  ELSE IF Len(words) = 1 THEN words[1]
  ELSE words[1] \o sep \o join(Tail(words), sep)

\* capitalize that leaves the case of the letters as it is
capitalizeKeepCase(word) == word

\* word.charAt(0).toUpperCase() + word.slice(1).toLowerCase()
capitalize(word) ==
  IF Len(word) = 0 THEN <<>>
  ELSE toUpperCaseChar(word[1]) \o toLowerCase(slice(word, 1))

\* s.replace(/[._-]/g, " ")
replaceSeparators(s) ==
  [i \in 1..Len(s) |-> IF s[i] \in Separators THEN " " ELSE s[i]]

\* s.replace(".", " "): a string pattern replaces the first occurrence only
replaceFirstDot(s) ==
  LET dots == {i \in 1..Len(s) : s[i] = "."}
  IN  IF dots = {} THEN s
      ELSE [i \in 1..Len(s) |-> IF i = MinOf(dots) THEN " " ELSE s[i]]

\* no padding at all
padStartNone(s) == s

\* s.padStart(2, "0")
RECURSIVE padStart2(_)
padStart2(s) == IF Len(s) >= 2 THEN s ELSE padStart2(<<"0">> \o s)

\* no span is removed
keepBracketed(s) == s

\* s.replace(/[\[\(].*?[\]\)]/g, ""): from the leftmost opening bracket that
\* has a closing bracket after it on the same line, up to the first such
\* closing bracket (lazy), is removed; the scan goes on after the match
RECURSIVE removeBracketed(_)
removeBracketed(s) ==
  LET closeAfter(i) == {j \in (i+1)..Len(s) : s[j] \in CloseBrackets}
      opens == {i \in 1..Len(s) :
                  /\ s[i] \in OpenBrackets
                  /\ closeAfter(i) # {}
                  /\ \A k \in (i+1)..(MinOf(closeAfter(i)) - 1) :
                        s[k] \notin LineTerminators}
  IN  IF opens = {} THEN s
      ELSE LET i == MinOf(opens)
               j == MinOf(closeAfter(i))
           IN  SubSeq(s, 1, i - 1) \o removeBracketed(SubSeq(s, j + 1, Len(s)))

\* ------------------------------------------------------------------------
\* lib.ts
\* ------------------------------------------------------------------------

\* /[Ss](\d{1,2})[Ee](\d{1,2})/ matched at the 1-based position i of s:
\* the set of season lengths with which the whole pattern matches there
seasonLengthsAt(s, i) ==
  {d \in 1..2 :
     /\ i + d + 2 <= Len(s)
     /\ s[i] \in {"S", "s"}
     /\ \A k \in 1..d : s[i + k] \in Digits
     /\ s[i + d + 1] \in {"E", "e"}
     /\ s[i + d + 2] \in Digits}

\* a match that takes the last place the pattern matches at, not the first
SEASON_EPISODE_LAST_MATCH(s) ==
  LET starts == {i \in 1..Len(s) : seasonLengthsAt(s, i) # {}}
  IN  IF starts = {}
        THEN [found |-> FALSE, index |-> 0, season |-> <<>>, episode |-> <<>>]
        ELSE LET i == MaxOf(starts)
                 d == MaxOf(seasonLengthsAt(s, i))
                 e == IF i + d + 3 <= Len(s) /\ s[i + d + 3] \in Digits
                        THEN 2 ELSE 1
             IN  [found   |-> TRUE,
                  index   |-> i - 1,
                  season  |-> SubSeq(s, i + 1, i + d),
                  episode |-> SubSeq(s, i + d + 2, i + d + 1 + e)]

\* filename.match(SEASON_EPISODE_REGEX): the leftmost match, with greedy
\* quantifiers; `found` is FALSE for a null match, `index` is 0-based
SEASON_EPISODE_REGEX(s) ==
  LET starts == {i \in 1..Len(s) : seasonLengthsAt(s, i) # {}}
  IN  IF starts = {}
        THEN [found |-> FALSE, index |-> 0, season |-> <<>>, episode |-> <<>>]
        ELSE LET i == MinOf(starts)
                 d == MaxOf(seasonLengthsAt(s, i))
                 e == IF i + d + 3 <= Len(s) /\ s[i + d + 3] \in Digits
                        THEN 2 ELSE 1
             IN  [found   |-> TRUE,
                  index   |-> i - 1,
                  season  |-> SubSeq(s, i + 1, i + d),
                  episode |-> SubSeq(s, i + d + 2, i + d + 1 + e)]

\* normalizeShowName with the words joined by nothing instead of "."
normalizeShowNameJoinEmpty(showName) ==
  join([i \in 1..Len(splitWhitespace(trim(showName))) |->
          capitalize(splitWhitespace(trim(showName))[i])], <<>>)

normalizeShowName(showName) ==
  join([i \in 1..Len(splitWhitespace(trim(showName))) |->
          capitalize(splitWhitespace(trim(showName))[i])], <<".">>)

\* the null result of extractSeasonEpisode
NoSeasonEpisode == [season |-> Null, episode |-> Null]

\* what a call leaves behind when it throws instead of returning
Thrown == [season |-> <<"TypeError">>, episode |-> <<"TypeError">>]

\* extractSeasonEpisode without `if (!match) return null`: match[1] of a
\* null match throws
extractSeasonEpisodeUnguarded(filename) ==
  LET match == SEASON_EPISODE_REGEX(filename)
  IN  IF ~match.found THEN Thrown
      ELSE [season  |-> padStart2(match.season),
            episode |-> padStart2(match.episode)]

extractSeasonEpisode(filename) ==
  LET match == SEASON_EPISODE_REGEX(filename)
  IN  IF ~match.found THEN NoSeasonEpisode
      ELSE [season  |-> padStart2(match.season),
            episode |-> padStart2(match.episode)]

\* a verifier that looks for every show word anywhere in the lower-cased
\* filename, inside a longer word included
showNameMatchesFilenameBySubstring(showName, filename) ==
  LET showWords == SelectSeq(splitWhitespace(toLowerCase(showName)), nonEmptyWord)
      lowered   == toLowerCase(filename)
  IN  \A a \in 1..Len(showWords) :
        \E i \in 1..Len(lowered) :
          /\ i + Len(showWords[a]) - 1 <= Len(lowered)
          /\ SubSeq(lowered, i, i + Len(showWords[a]) - 1) = showWords[a]

\* a matcher that replaces the separators of the show name as well
showNameMatchesFilenameSeparatorsReplaced(showName, filename) ==
  LET showWords ==
        SelectSeq(splitWhitespace(replaceSeparators(toLowerCase(showName))),
                  nonEmptyWord)
      filenameWords ==
        SelectSeq(splitWhitespace(replaceSeparators(toLowerCase(filename))),
                  nonEmptyWord)
  IN  \A a \in 1..Len(showWords) :
        \E b \in 1..Len(filenameWords) : filenameWords[b] = showWords[a]

showNameMatchesFilename(showName, filename) ==
  LET showWords == SelectSeq(splitWhitespace(toLowerCase(showName)), nonEmptyWord)
      filenameWords ==
        SelectSeq(splitWhitespace(replaceSeparators(toLowerCase(filename))),
                  nonEmptyWord)
  IN  \A a \in 1..Len(showWords) :
        \E b \in 1..Len(filenameWords) : filenameWords[b] = showWords[a]

extractShowNameFromFilename(filename) ==
  LET match == SEASON_EPISODE_REGEX(filename)
  IN  IF ~match.found THEN Null
      ELSE LET beforePattern == SubSeq(filename, 1, match.index)
               cleaned    == removeBracketed(beforePattern)
               withSpaces == replaceSeparators(cleaned)
               words == SelectSeq(splitWhitespace(trim(withSpaces)), nonEmptyWord)
           IN  IF Len(words) = 0 THEN Null
               ELSE join([i \in 1..Len(words) |-> capitalize(words[i])], <<" ">>)

\* the keys of a Map filled with map.set(x, ...) for each x of xs in order:
\* a Map iterates its keys in the order of their first insertion
RECURSIVE insertionOrder(_)
insertionOrder(xs) ==
  IF Len(xs) = 0 THEN <<>>
  ELSE LET front == insertionOrder(SubSeq(xs, 1, Len(xs) - 1))
           last  == xs[Len(xs)]
       IN  IF \E i \in 1..Len(front) : front[i] = last
             THEN front ELSE Append(front, last)

\* the value the Map holds for key x after counting every element of xs
occurrences(xs, x) == Cardinality({i \in 1..Len(xs) : xs[i] = x})

\* path.extname of a name without directory part: from the last "." to the
\* end; "" when there is no ".", when the last "." is the first character,
\* and for ".."
extname(name) ==
  LET dots == {i \in 1..Len(name) : name[i] = "."}
  IN  IF dots = {} THEN <<>>
      ELSE LET startDot == MaxOf(dots)
           IN  IF startDot = 1 \/ name = <<".", ".">> THEN <<>>
               ELSE SubSeq(name, startDot, Len(name))

VIDEO_EXTENSIONS ==
  { <<".","m","k","v">>, <<".","a","v","i">>, <<".","m","p","4">>,
    <<".","f","l","v">>, <<".","m","4","v">>, <<".","m","o","v">>,
    <<".","w","m","v">> }

isVideoFile(filename) == toLowerCase(extname(filename)) \in VIDEO_EXTENSIONS

\* a check that lists a shared name once for every operation that has it
checkForConflictsPerOperation(operations) ==
  LET targets == [i \in 1..Len(operations) |-> operations[i].newName]
      isConflict(name) == occurrences(targets, name) > 1
  IN  SelectSeq(targets, isConflict)

\* checkForConflicts reads only op.newName of each operation
checkForConflicts(operations) ==
  LET targets == [i \in 1..Len(operations) |-> operations[i].newName]
      isConflict(name) == occurrences(targets, name) > 1
  IN  SelectSeq(insertionOrder(targets), isConflict)

\* the filter of extractedNames that lets null through
notNullKeepAll(name) == TRUE

\* extractedNames of inferShowName: the non-null extracted names, in order
notNull(name) == name # Null

extractedNames(filenames) ==
  SelectSeq([i \in 1..Len(filenames) |-> extractShowNameFromFilename(filenames[i])],
            notNull)

\* the comparison of the loop with >= instead of >
isMoreCommonOrEqual(count, maxCount) == count >= maxCount

\* `count > maxCount` of the loop that looks for the most common name
isMoreCommon(count, maxCount) == count > maxCount

\* the loop that never updates maxCount: every key replaces the one before
mostCommonKeepsLast(names, keys, k) ==
  IF k = 0 THEN [name |-> Null, count |-> 0]
  ELSE [name |-> keys[k], count |-> occurrences(names, keys[k])]

\* a loop that counts while it scans the names and keeps the name whose
\* running count first exceeds the highest count so far
mostCommonRunning(names, keys, k) ==
  LET scan[n \in 0..Len(names)] ==
        IF n = 0 THEN [name |-> Null, count |-> 0]
        ELSE LET running == occurrences(SubSeq(names, 1, n), names[n])
             IN  IF running > scan[n - 1].count
                   THEN [name |-> names[n], count |-> running]
                   ELSE scan[n - 1]
  IN  IF k = 0 THEN [name |-> Null, count |-> 0] ELSE scan[Len(names)]

\* a loop that keeps the key with the lowest count
RECURSIVE mostCommonLeast(_, _, _)
mostCommonLeast(names, keys, k) ==
  IF k = 0 THEN [name |-> Null, count |-> 0]
  ELSE LET before == mostCommonLeast(names, keys, k - 1)
           count  == occurrences(names, keys[k])
       IN  IF before.name = Null \/ count < before.count
             THEN [name |-> keys[k], count |-> count]
             ELSE before

\* the loop over nameCounts: [name, count] after the first k keys
RECURSIVE mostCommon(_, _, _)
mostCommon(names, keys, k) ==
  IF k = 0 THEN [name |-> Null, count |-> 0]
  ELSE LET before == mostCommon(names, keys, k - 1)
           count  == occurrences(names, keys[k])
       IN  IF isMoreCommon(count, before.count)
             THEN [name |-> keys[k], count |-> count]
             ELSE before

\* matchPercentage = (maxCount / totalExtracted) * 100 compared with the
\* percentage p.  The comparison is done on the exact ratio: maxCount * 100
\* against p * totalExtracted.  For p = 80 and p = 100 the double-precision
\* quotient times 100 gives the same answer for every count a list can have.
matchPercentageIs100(maxCount, totalExtracted) ==
  maxCount * 100 = 100 * totalExtracted

\* the medium threshold with > instead of >=
matchPercentageAbove80(maxCount, totalExtracted) ==
  maxCount * 100 > 80 * totalExtracted

matchPercentageAtLeast80(maxCount, totalExtracted) ==
  maxCount * 100 >= 80 * totalExtracted

\* the total taken from the filenames instead of the extracted names
totalExtractedOfAllFiles(filenames, names) == Len(filenames)

\* totalExtracted = extractedNames.length
totalExtractedOf(filenames, names) == Len(names)

\* the list of all keys, the most common name included
conflictingNamesWithWinner(keys, mostCommonName) == keys

\* Array.from(nameCounts.keys()).filter(name => name !== mostCommonName)
conflictingNamesOf(keys, mostCommonName) ==
  LET isOther(name) == name # mostCommonName
  IN  SelectSeq(keys, isOther)

\* a "high" result that carries the (empty) list of conflicting names
highResultWithConflicts(mostCommonName, conflictingNames) ==
  [showName |-> mostCommonName, confidence |-> "high",
   conflictingNames |-> conflictingNames]

\* the result of the branch matchPercentage === 100: no conflictingNames
highResult(mostCommonName, conflictingNames) ==
  [showName |-> mostCommonName, confidence |-> "high",
   conflictingNames |-> Undefined]

inferShowName(filenames) ==
  IF Len(filenames) = 0
    THEN [showName |-> Null, confidence |-> "low", conflictingNames |-> Undefined]
  ELSE
  LET names == extractedNames(filenames)
  IN  IF Len(names) = 0
        THEN [showName |-> Null, confidence |-> "low",
              conflictingNames |-> Undefined]
      ELSE
      LET keys  == insertionOrder(names)
          best  == mostCommon(names, keys, Len(keys))
          mostCommonName == best.name
          maxCount       == best.count
          totalExtracted == totalExtractedOf(filenames, names)
          conflictingNames == conflictingNamesOf(keys, mostCommonName)
          reported == IF Len(conflictingNames) > 0
                        THEN conflictingNames ELSE Undefined
      IN  IF matchPercentageIs100(maxCount, totalExtracted)
            THEN highResult(mostCommonName, conflictingNames)
          ELSE IF matchPercentageAtLeast80(maxCount, totalExtracted)
            THEN [showName |-> mostCommonName, confidence |-> "medium",
                  conflictingNames |-> reported]
          ELSE [showName |-> mostCommonName, confidence |-> "low",
                conflictingNames |-> reported]

\* ------------------------------------------------------------------------
\* State
\* ------------------------------------------------------------------------

VARIABLES
  pc,            \* where the caller of the library, or the CLI run, stands
  args,          \* the arguments of a library call
  returned,      \* the function called and the value it returned
  cli,           \* the CLI that runs: "infer" (part_001) or "args" (index.ts)
  target,        \* what the path argument names: a directory, a file, ...
  argv,          \* process.argv.slice(2): the arguments of the command
  dirEntries,    \* names of the files of the directory (or the single file)
  videoFiles,    \* names of the video files the run works on
  inference,     \* the InferenceResult of the run
  finalShowName, \* the show name the user confirmed
  operations,    \* the RenameOperation of every video file
  conflicts,     \* what checkForConflicts returned
  checked,       \* whether checkForConflicts has run over the batch
  nextOp,        \* index in validOps of the next operation to apply
  renames,       \* the fs.rename calls that succeeded, in order
  output,        \* what the run told the user when it stopped
  exitCode       \* -1 while running, then the exit code of the process

cliVars == <<cli, target, argv, dirEntries, videoFiles, inference,
             finalShowName, operations, conflicts, checked, nextOp, renames,
             output, exitCode>>

vars == <<pc, args, returned, cli, target, argv, dirEntries,
          videoFiles, inference, finalShowName, operations, conflicts,
          checked, nextOp, renames, output, exitCode>>

NoReturn == [fn |-> "none", value |-> <<>>]

NoArgs == [showName |-> <<>>, filename |-> <<>>, filenames |-> <<>>,
           operations |-> <<>>]

NoInference ==
  [showName |-> Null, confidence |-> "none", conflictingNames |-> Undefined]

\* no run of a CLI: the state of the CLI as it is before a run starts
CliIdle ==
  /\ cli = "none"
  /\ target = "none"
  /\ argv = <<>>
  /\ dirEntries = <<>>
  /\ videoFiles = <<>>
  /\ inference = NoInference
  /\ finalShowName = <<>>
  /\ operations = <<>>
  /\ conflicts = <<>>
  /\ checked = FALSE
  /\ nextOp = 0
  /\ renames = <<>>
  /\ output = <<>>
  /\ exitCode = -1

\* ------------------------------------------------------------------------
\* Inputs
\* ------------------------------------------------------------------------

\* longest show name handed to normalizeShowName
MaxNameLen == 5

\* longest text in front of the marker of a generated filename
MaxPrefixLen == 4

\* longest list of filenames handed to inferShowName
MaxFiles == 5

StringsOver(chars, n) == UNION {[1..k -> chars] : k \in 0..n}

\* a lower-case letter, an upper-case letter, whitespace and a separator
NameChars == {"a", "B", " ", "."}

\* show names with white space other than the blank: line feeds, carriage
\* return and form feed around and between words, a tab, a no-break space
\* between words, an ideographic space and a vertical tab alone; and a name
\* whose first letter is a sharp s
WhitespaceShowNames ==
  { <<"a","\n">>, <<"t","h","e","\n","r","o","o","k","i","e">>,
    <<"\r","\n","a"," ","b","\f">>, <<"a","\t","B">>,
    <<"a","U+00A0","b">>, <<"U+3000">>, <<"U+000B","\n">>,
    <<"U+FEFF","a","U+2028","U+2003","b","U+2029">>,
    <<"ß","a"," ","b">> }

ShowNames == StringsOver(NameChars, MaxNameLen) \cup WhitespaceShowNames

\* letters in both cases, a separator, whitespace and brackets
PrefixChars == {"a", "B", ".", " ", "[", "]"}

\* no marker, a marker with one-digit numbers, one with two-digit numbers
Markers == { <<>>, <<"s","1","e","2">>, <<"S","0","4","E","1","2">> }

\* filenames of the test-suite (lib.test.ts), tags in brackets included
DocumentedFilenames ==
  { <<"T","h","e",".","R","o","o","k","i","e",".","S","0","4","E","0","7",".","m","k","v">>,
    <<"t","h","e","_","r","o","o","k","i","e","_","s","0","4","e","0","7",".","m","k","v">>,
    <<"[","R","A","R","B","G","]","T","h","e",".","R","o","o","k","i","e",".","S","0","4","E","0","7",".","m","k","v">>,
    <<"(","2","0","2","3",")","T","h","e",".","R","o","o","k","i","e",".","S","0","4","E","0","7",".","m","k","v">>,
    <<"r","a","n","d","o","m","_","f","i","l","e",".","m","k","v">> }

GeneratedFilenames ==
  {p \o m : p \in StringsOver(PrefixChars, MaxPrefixLen), m \in Markers}

\* longest filename made of the characters of a marker
MaxMarkerLen == 6

\* filenames made of the characters of a marker: markers with one and two
\* digits, markers behind an S that starts none, runs of three digits
MarkerFilenames == StringsOver({"s", "E", "1", "2"}, MaxMarkerLen)

\* filenames with a run of three digits behind the S and behind the E, and
\* a filename with two markers
LongRunFilenames ==
  { <<"S","h","o","w",".","S","1","2","3","E","0","4",".","m","k","v">>,
    <<"S","h","o","w",".","S","0","1","E","1","2","3",".","m","k","v">>,
    <<"S","h","o","w",".","S","0","1","E","0","2",".","S","0","3","E","0","4",".","m","k","v">> }

\* filenames whose brackets of both kinds pair, nest, cross or stay open
BracketFilenames ==
  { p \o <<"s", "1", "e", "2">> :
      p \in StringsOver({"a", "[", "]", "(", ")"}, MaxPrefixLen) }

\* filenames with white space other than the blank in front of the marker,
\* inside a bracketed span (a line terminator keeps the span from matching)
\* and between the words; and a filename whose first letter is a sharp s
WhitespaceFilenames ==
  { <<"a","\n","b",".","s","1","e","2",".","m","k","v">>,
    <<"[","a","\n","]","b",".","s","1","e","2">>,
    <<"[","a","U+2028","]","b",".","s","1","e","2">>,
    <<"[","a","\t","]","b",".","s","1","e","2">>,
    <<"(","x","U+00A0",")","a","U+3000","b","\r","s","1","e","2">>,
    <<"\f","a","U+000B","s","1","e","2",".","m","p","4">>,
    <<"ß","a",".","s","1","e","2",".","m","k","v">> }

LibFilenames ==
  GeneratedFilenames \cup DocumentedFilenames \cup MarkerFilenames
    \cup LongRunFilenames \cup BracketFilenames \cup WhitespaceFilenames

\* the files of the lists handed to inferShowName: the show "A B" in two
\* styles that use all four separators and both letter cases, the shows B
\* and C, a file without marker, and a file with nothing in front of its
\* marker
InferFilenames ==
  { <<"a",".","b","-","s","1","e","1">>,
    <<"A","_","B"," ","S","1","E","2">>,
    <<"b","-","s","1","e","1">>,
    <<"c"," ","S","0","1","E","0","1">>,
    <<"a","b">>,
    <<"s","1","e","1">> }

FilenameLists == StringsOver(InferFilenames, MaxFiles)

\* ------------------------------------------------------------------------
\* Calls of the library functions on one show name or one filename
\* ------------------------------------------------------------------------

InitLib ==
  /\ pc = "ready"
  /\ \/ \E s \in ShowNames :
          args = [showName |-> s, filename |-> <<>>, filenames |-> <<>>,
                  operations |-> <<>>]
     \/ \E f \in LibFilenames :
          args = [showName |-> <<>>, filename |-> f, filenames |-> <<>>,
                  operations |-> <<>>]
  /\ returned = NoReturn
  /\ CliIdle

CallNormalizeShowName ==
  /\ pc = "ready"
  /\ pc' = "returned"
  /\ returned' = [fn |-> "normalizeShowName",
                  value |-> normalizeShowName(args.showName)]
  /\ UNCHANGED <<args, cliVars>>

CallExtractSeasonEpisode ==
  /\ pc = "ready"
  /\ pc' = "returned"
  /\ returned' = [fn |-> "extractSeasonEpisode",
                  value |-> extractSeasonEpisode(args.filename)]
  /\ UNCHANGED <<args, cliVars>>

CallIsVideoFile ==
  /\ pc = "ready"
  /\ pc' = "returned"
  /\ returned' = [fn |-> "isVideoFile", value |-> isVideoFile(args.filename)]
  /\ UNCHANGED <<args, cliVars>>

CallShowNameMatchesFilename ==
  /\ pc = "ready"
  /\ pc' = "returned"
  /\ returned' = [fn |-> "showNameMatchesFilename",
                  value |-> showNameMatchesFilename(args.showName, args.filename)]
  /\ UNCHANGED <<args, cliVars>>

CallExtractShowNameFromFilename ==
  /\ pc = "ready"
  /\ pc' = "returned"
  /\ returned' = [fn |-> "extractShowNameFromFilename",
                  value |-> extractShowNameFromFilename(args.filename)]
  /\ UNCHANGED <<args, cliVars>>

NextLib ==
  \/ CallNormalizeShowName
  \/ CallExtractSeasonEpisode
  \/ CallIsVideoFile
  \/ CallShowNameMatchesFilename
  \/ CallExtractShowNameFromFilename

SpecLib == InitLib /\ [][NextLib]_vars

\* ------------------------------------------------------------------------
\* Calls of inferShowName on a list of filenames
\* ------------------------------------------------------------------------

InitInfer ==
  /\ pc = "ready"
  /\ \E l \in FilenameLists :
        args = [showName |-> <<>>, filename |-> <<>>, filenames |-> l,
                operations |-> <<>>]
  /\ returned = NoReturn
  /\ CliIdle

CallInferShowName ==
  /\ pc = "ready"
  /\ pc' = "returned"
  /\ returned' = [fn |-> "inferShowName",
                  value |-> inferShowName(args.filenames)]
  /\ UNCHANGED <<args, cliVars>>

NextInfer == CallInferShowName

SpecInfer == InitInfer /\ [][NextInfer]_vars

\* ------------------------------------------------------------------------
\* Calls of showNameMatchesFilename on a show name and a filename
\* ------------------------------------------------------------------------

\* longest show name handed to showNameMatchesFilename
MaxShowLen == 3

\* longest generated filename handed to showNameMatchesFilename
MaxFileLen == 4

\* letters in both cases and whitespace
MatchShowNames == StringsOver({"a", "B", " "}, MaxShowLen)

\* letters and the three separators
MatchFilenames == StringsOver({"a", "b", ".", "-", "_"}, MaxFileLen)

\* the calls of the test-suite (lib.test.ts): <<showName, filename>>
DocumentedMatches ==
  { <<<<"T","h","e"," ","R","o","o","k","i","e">>,
       <<"T","h","e",".","R","o","o","k","i","e",".","S","0","4","E","0","7",".","m","k","v">>>>,
    <<<<"W","o","n","d","e","r"," ","M","a","n">>,
       <<"W","o","n","d","e","r","-","M","a","n","-","S","0","1","E","0","1",".","m","k","v">>>>,
    <<<<"T","h","e"," ","R","o","o","k","i","e">>,
       <<"T","h","e"," ","R","o","o","k","i","e"," ","S","0","4","E","0","7",".","m","k","v">>>>,
    <<<<"D","r","a","g","o","n"," ","B","a","l","l">>,
       <<"d","r","a","g","o","n","_","b","a","l","l","_","s","1","e","1",".","m","p","4">>>>,
    <<<<"t","h","e"," ","r","o","o","k","i","e">>,
       <<"T","H","E",".","R","O","O","K","I","E",".","S","0","4","E","0","7",".","m","k","v">>>>,
    <<<<"T","h","e"," ","R","o","o","k","i","e">>,
       <<"W","o","n","d","e","r",".","M","a","n",".","S","0","1","E","0","1",".","m","k","v">>>>,
    <<<<"T","h","e"," ","R","o","o","k","i","e">>,
       <<"T","h","e","r","o","o","k","i","e",".","S","0","4","E","0","7",".","m","k","v">>>>,
    <<<<"M","a","n"," ","W","o","n","d","e","r">>,
       <<"W","o","n","d","e","r",".","M","a","n",".","S","0","1","E","0","1",".","m","k","v">>>>,
    <<<<"T","h","e"," ","R","o","o","k","i","e"," ","S","e","a","s","o","n">>,
       <<"T","h","e",".","R","o","o","k","i","e",".","S","0","4","E","0","7",".","m","k","v">>>>,
    <<<<"T","h","e"," ","O","f","f","i","c","e"," ","U","S">>,
       <<"T","h","e",".","O","f","f","i","c","e",".","U","S",".","S","0","2","E","0","1",".","m","k","v">>>> }

\* show names with a separator inside a word, the two of the kind "Spider-Man"
\* and "S.W.A.T." among them
SeparatorShowNames ==
  { <<"a","-","b">>, <<"a",".">>, <<"_">>, <<"b"," ","a","_">>,
    <<"S","p","i","d","e","r","-","M","a","n">>,
    <<"S",".","W",".","A",".","T",".">> }

\* the filenames that spell these two show names as they stand
SeparatorFilenames ==
  { <<"S","p","i","d","e","r","-","M","a","n",".","S","0","1","E","0","1",".","m","k","v">>,
    <<"S",".","W",".","A",".","T",".","S","0","1","E","0","1",".","m","k","v">> }

\* calls with white space other than the blank between the words of the
\* show name and between the words of the filename
WhitespaceMatches ==
  { <<<<"a","\n","b">>, <<"b",".","a",".","m","k","v">>>>,
    <<<<"a","U+00A0","b">>, <<"a","b",".","m","k","v">>>>,
    <<<<"\r","a","\f">>, <<"a","U+2028","b",".","m","k","v">>>>,
    <<<<"a">>, <<"a","U+3000","b">>>>,
    <<<<"a","\t","\t","b">>, <<"a","\n","c">>>> }

InitMatch ==
  /\ pc = "ready"
  /\ \/ \E s \in MatchShowNames, f \in MatchFilenames :
          args = [showName |-> s, filename |-> f, filenames |-> <<>>,
                  operations |-> <<>>]
     \/ \E s \in SeparatorShowNames,
           f \in MatchFilenames \cup SeparatorFilenames :
          args = [showName |-> s, filename |-> f, filenames |-> <<>>,
                  operations |-> <<>>]
     \/ \E d \in DocumentedMatches \cup WhitespaceMatches :
          args = [showName |-> d[1], filename |-> d[2], filenames |-> <<>>,
                  operations |-> <<>>]
  /\ returned = NoReturn
  /\ CliIdle

NextMatch == CallShowNameMatchesFilename

SpecMatch == InitMatch /\ [][NextMatch]_vars

\* ------------------------------------------------------------------------
\* A run of the CLI: main of part_001 (show name inferred and confirmed at a
\* prompt) and main of index.ts (show name given as an argument)
\* ------------------------------------------------------------------------

\* most files a directory holds
MaxDirFiles == 3

\* the files a directory can hold: two files of show A with the same season
\* and episode, one with an upper-case extension, a file of show B, a video
\* without marker, a file that is no video, a file with a release tag, and a
\* file that has its canonical name already, a file of the test-suite with a
\* resolution tag behind its marker, and a file of a show whose name is a
\* sharp s beside the file that carries that show's canonical name
DirFilenames ==
  { <<"a",".","s","1","e","1",".","m","k","v">>,
    <<"A","_","S","0","1","E","0","1","_","x",".","m","k","v">>,
    <<"a",".","s","1","e","2",".","M","K","V">>,
    <<"b","-","s","2","e","3",".","a","v","i">>,
    <<"a","b",".","m","p","4">>,
    <<"a",".","s","1","e","3",".","t","x","t">>,
    <<"[","t","]","a",".","s","1","e","4",".","m","k","v">>,
    <<"A",".","S","0","1","E","0","1",".","m","k","v">>,
    <<"T","h","e",".","R","o","o","k","i","e",".","S","0","4","E","0","1",".","7","2","0","p",".","m","k","v">>,
    <<"ß",".","s","1","e","1",".","m","k","v">>,
    <<"S","S",".","S","0","1","E","0","1",".","m","k","v">> }

\* a directory listing: distinct names, in the order readdir gives them
Directories ==
  {l \in StringsOver(DirFilenames, MaxDirFiles) :
     \A i, j \in 1..Len(l) : i # j => l[i] # l[j]}

\* what the user may type at the prompt instead of accepting the default: a
\* name, a name with blanks around it, a blank, a name that is a marker, a
\* name with a separator in it, a name whose first letter has an upper case
\* of two letters, a name between a line feed and a no-break space
TypedShowNames ==
  { <<"a">>, <<" ","B"," ">>, <<" ">>, <<"s","1","e","1">>, <<"b","-">>,
    <<"ß">>, <<"\n","b","U+00A0">> }

\* the show name argument of index.ts; <<>> is the empty string
ArgShowNames == { <<>>, <<"a">>, <<"b">>, <<" ">> }

\* the word the tools wrapper puts in front of the arguments
Wrapper ==
  <<"e","p","i","s","o","d","e","-","r","e","n","a","m","e","r">>

Help == <<"-","-","h","e","l","p">>

\* the working directory of the process
Cwd == <<"/","w">>

\* the directory the path argument resolves to
ResolvedPath == <<"/","d">>

\* path.join(dir, name) for a name without "/" and "."-segments
pathJoin(dir, name) == dir \o <<"/">> \o name

\* path.resolve(cwd, p) for a path without "."-segments and doubled or
\* trailing "/": an absolute path as it is, a relative one behind cwd
pathResolve(cwd, p) ==
  IF Len(p) > 0 /\ p[1] = "/" THEN p ELSE pathJoin(cwd, p)

\* process.argv[2] === "episode-renamer" ? 3 : 2, as a position in argv
startIndex(av) == IF Len(av) >= 1 /\ av[1] = Wrapper THEN 2 ELSE 1

\* the i-th argument is there and is not the empty string: !x is false
given(av, i) == Len(av) >= i /\ av[i] # <<>>

\* const [inputPath] = process.argv.slice(startIndex), and folderPath of
\* index.ts
inputPath(av) == av[startIndex(av)]

\* const [folderPath, showName] = process.argv.slice(startIndex)
showNameArgument(av) == av[startIndex(av) + 1]

\* the condition of the usage text: --help, no path and, in index.ts, no
\* show name
usageAsked(c, av) ==
  \/ Len(av) >= startIndex(av) /\ av[startIndex(av)] = Help
  \/ ~given(av, startIndex(av))
  \/ c = "args" /\ ~given(av, startIndex(av) + 1)

\* the first line of the usage text
usageText(c) ==
  IF c = "infer" THEN "Usage: episode-renamer <path>"
  ELSE "Usage: episode-renamer <folderPath> <showName>"

\* the message of the error a failing fs call throws
fsErrorText(code, syscall) ==
  CASE code = "ENOENT"  -> "ENOENT: no such file or directory, " \o syscall \o " "
    [] code = "EACCES"  -> "EACCES: permission denied, " \o syscall \o " "
    [] code = "ENOTDIR" -> "ENOTDIR: not a directory, " \o syscall \o " "
    [] OTHER -> "ELOOP: too many symbolic links encountered, " \o syscall \o " "

quoted(p) == <<"'">> \o p \o <<"'">>

\* the code of the error fs.stat throws for what the path names, "ok" when
\* it returns
statOutcome(t) ==
  CASE t = "missing" -> "ENOENT"
    [] t = "denied"  -> "EACCES"
    [] t = "looping" -> "ELOOP"
    [] OTHER -> "ok"

\* the code of the error fs.readdir throws, "ok" when it lists
readdirOutcome(t) ==
  CASE t = "missing" -> "ENOENT"
    [] t \in {"denied", "unreadable"} -> "EACCES"
    [] t = "looping" -> "ELOOP"
    [] t \in {"file", "other"} -> "ENOTDIR"
    [] OTHER -> "ok"

NoPatternReason == "No S##E## pattern found"

NoMatchReason == "Show name not found in filename"

\* reason of an operation that is not skipped: the property is absent
NoReason == "undefined"

\* a skipped operation that keeps the old name as its target
skippedOperationKeepsName(name, reason) ==
  [oldPath |-> pathJoin(ResolvedPath, name),
   newPath |-> pathJoin(ResolvedPath, name),
   oldName |-> name, newName |-> name,
   skipped |-> TRUE, reason |-> reason]

\* the object returned for a file that is skipped
skippedOperation(name, reason) ==
  [oldPath |-> pathJoin(ResolvedPath, name), newPath |-> <<>>,
   oldName |-> name, newName |-> <<>>,
   skipped |-> TRUE, reason |-> reason]

\* the object returned for a file that is renamed
renameOperation(name, newName) ==
  [oldPath |-> pathJoin(ResolvedPath, name),
   newPath |-> pathJoin(ResolvedPath, newName),
   oldName |-> name, newName |-> newName,
   skipped |-> FALSE, reason |-> NoReason]

\* a target name with the extension in lower case
newNameLowerCaseExt(normalizedShowName, seasonEpisode, ext) ==
  normalizedShowName \o <<".", "S">> \o seasonEpisode.season \o <<"E">>
    \o seasonEpisode.episode \o toLowerCase(ext)

\* `${normalizedShowName}.S${seasonEpisode.season}E${seasonEpisode.episode}${ext}`
newNameOf(normalizedShowName, seasonEpisode, ext) ==
  normalizedShowName \o <<".", "S">> \o seasonEpisode.season \o <<"E">>
    \o seasonEpisode.episode \o ext

\* a planner that asks the Match Verifier before it looks for the marker
planOperationMatchFirst(showName, normalizedShowName, name) ==
  LET seasonEpisode == extractSeasonEpisode(name)
  IN  IF ~showNameMatchesFilename(showName, name)
        THEN skippedOperation(name, NoMatchReason)
      ELSE IF seasonEpisode = NoSeasonEpisode
        THEN skippedOperation(name, NoPatternReason)
      ELSE renameOperation(
             name, newNameOf(normalizedShowName, seasonEpisode, extname(name)))

\* the body of videoFiles.map(file => ...): the RenameOperation of one file
planOperation(showName, normalizedShowName, name) ==
  LET seasonEpisode == extractSeasonEpisode(name)
  IN  IF seasonEpisode = NoSeasonEpisode
        THEN skippedOperation(name, NoPatternReason)
      ELSE IF ~showNameMatchesFilename(showName, name)
        THEN skippedOperation(name, NoMatchReason)
      ELSE LET ext == extname(name)
           IN  renameOperation(
                 name, newNameOf(normalizedShowName, seasonEpisode, ext))

planOperations(showName, files) ==
  [i \in 1..Len(files) |->
     planOperation(showName, normalizeShowName(showName), files[i])]

\* the batch handed on whole, skipped operations included
validOpsKeepSkipped(ops) == ops

\* operations.filter(op => !op.skipped)
notSkipped(op) == ~op.skipped

validOpsOf(ops) == SelectSeq(ops, notSkipped)

\* the test that aborts the batch, off by one
hasConflictsOffByOne(found) == Len(found) > 1

\* `conflicts.length > 0`, the test that aborts the batch
hasConflicts(found) == Len(found) > 0

\* a prompt that accepts every input
validShowNameAlways(input) == TRUE

\* the validation of the prompt: the trimmed input is not empty
validShowName(input) == Len(trim(input)) > 0

\* the run stops with an uncaught error: the catch handler prints it and
\* calls process.exit(1)
Fail(message, detail) ==
  /\ pc' = "exited"
  /\ exitCode' = 1
  /\ output' = Append(output, [stream |-> "stderr", message |-> message,
                               detail |-> detail])

\* main returns: the process ends with exit code 0
Stop(message) ==
  /\ pc' = "exited"
  /\ exitCode' = 0
  /\ output' = Append(output, [stream |-> "stdout", message |-> message,
                               detail |-> <<>>])

\* what the path can name besides a directory that lists and a file: nothing,
\* something behind a directory without search permission, a symbolic link
\* that loops, a FIFO, a directory without read permission
OtherTargets == {"missing", "denied", "looping", "other", "unreadable"}

\* the command lines of the CLI c for the path p: with and without the
\* wrapper word, with --help, without arguments, with an empty path
Argvs(c, p) ==
  IF c = "infer"
    THEN { <<>>, << <<>> >>, <<Help>>, <<p>>, <<Wrapper>>, <<Wrapper, p>>,
           <<Wrapper, Help>> }
    ELSE { <<p, n>> : n \in ArgShowNames }
           \cup { <<>>, <<p>>, <<Help, <<"a">>>>, <<Wrapper, <<"a">>>>,
                  <<Wrapper, p, <<"a">>>> }

InitMain ==
  /\ pc = "start"
  /\ args = NoArgs
  /\ returned = NoReturn
  /\ cli \in {"infer", "args"}
  /\ \/ target = "directory" /\ dirEntries \in Directories
     \/ target = "file" /\ \E f \in DirFilenames : dirEntries = <<f>>
     \/ target \in OtherTargets /\ dirEntries = <<>>
  /\ argv \in Argvs(cli, IF target = "file"
                           THEN pathJoin(ResolvedPath, dirEntries[1])
                           ELSE ResolvedPath)
  /\ videoFiles = <<>>
  /\ inference = NoInference
  /\ finalShowName = <<>>
  /\ operations = <<>>
  /\ conflicts = <<>>
  /\ checked = FALSE
  /\ nextOp = 0
  /\ renames = <<>>
  /\ output = <<>>
  /\ exitCode = -1

\* --help, no path or (index.ts) no show name: the usage text is printed
\* and main returns
Usage ==
  /\ pc = "start"
  /\ usageAsked(cli, argv)
  /\ Stop(usageText(cli))
  /\ UNCHANGED <<args, returned, cli, target, argv, dirEntries,
                 videoFiles, inference, finalShowName, operations, conflicts,
                 checked, nextOp, renames>>

\* part_001: fs.stat throws, or the path is neither a file nor a directory
PathFails ==
  /\ pc = "start"
  /\ cli = "infer"
  /\ ~usageAsked(cli, argv)
  /\ target \in {"missing", "denied", "looping", "other"}
  /\ LET code == statOutcome(target)
     IN  CASE code = "ENOENT" ->
                Fail("Path does not exist: ", inputPath(argv))
           [] code = "EACCES" ->
                Fail("Permission denied: ", inputPath(argv))
           [] code = "ok" ->
                Fail("Path is neither a file nor a directory: ",
                     inputPath(argv))
           [] OTHER ->
                Fail(fsErrorText(code, "stat"),
                     quoted(pathResolve(Cwd, inputPath(argv))))
  /\ UNCHANGED <<args, returned, cli, target, argv, dirEntries,
                 videoFiles, inference, finalShowName, operations, conflicts,
                 checked, nextOp, renames>>

\* part_001: fs.stat returns and tells a directory; main calls fs.readdir
\* and waits for it
StatDirectory ==
  /\ pc = "start"
  /\ cli = "infer"
  /\ ~usageAsked(cli, argv)
  /\ target \in {"directory", "unreadable"}
  /\ pc' = "statted"
  /\ UNCHANGED <<args, returned, cli, target, argv, dirEntries,
                 videoFiles, inference, finalShowName, operations, conflicts,
                 checked, nextOp, renames, output, exitCode>>

\* part_001, between the await of fs.stat and the await of fs.readdir:
\* another process removes the directory or puts something else in its
\* place
PathChanges ==
  /\ pc = "statted"
  /\ target' \in (OtherTargets \cup {"file"}) \ {target}
  /\ dirEntries' = <<>>
  /\ UNCHANGED <<pc, args, returned, cli, argv, videoFiles, inference,
                 finalShowName, operations, conflicts, checked, nextOp,
                 renames, output, exitCode>>

\* where main stands when fs.readdir returns: index.ts calls it first,
\* part_001 after fs.stat
readdirCalled == pc = (IF cli = "infer" THEN "statted" ELSE "start")

\* fs.readdir throws: for every path that is no directory that lists
ReadDirectoryFails ==
  /\ readdirCalled
  /\ ~usageAsked(cli, argv)
  /\ readdirOutcome(target) # "ok"
  /\ Fail(fsErrorText(readdirOutcome(target), "scandir"),
          quoted(pathResolve(Cwd, inputPath(argv))))
  /\ UNCHANGED <<args, returned, cli, target, argv, dirEntries,
                 videoFiles, inference, finalShowName, operations, conflicts,
                 checked, nextOp, renames>>

\* part_001, single file mode
SingleFile ==
  /\ pc = "start"
  /\ cli = "infer"
  /\ ~usageAsked(cli, argv)
  /\ target = "file"
  /\ LET filename == dirEntries[1]
     IN  IF ~isVideoFile(filename)
           THEN Fail("Not a video file: ", filename) /\ UNCHANGED videoFiles
         ELSE IF extractSeasonEpisode(filename) = NoSeasonEpisode
           THEN /\ Fail("No S##E## pattern found in: ", filename)
                /\ UNCHANGED videoFiles
         ELSE /\ videoFiles' = <<filename>>
              /\ pc' = "listed"
              /\ UNCHANGED <<output, exitCode>>
  /\ UNCHANGED <<args, returned, cli, target, argv, dirEntries,
                 inference, finalShowName, operations, conflicts, checked,
                 nextOp, renames>>

\* directory mode: readdir, the files that are videos
ReadDirectory ==
  /\ readdirCalled
  /\ ~usageAsked(cli, argv)
  /\ target = "directory"
  /\ LET files == SelectSeq(dirEntries, isVideoFile)
     IN  IF Len(files) = 0
           THEN /\ Stop("No video files found in the specified folder.")
                /\ UNCHANGED videoFiles
           ELSE /\ videoFiles' = files
                /\ pc' = "listed"
                /\ UNCHANGED <<output, exitCode>>
  /\ UNCHANGED <<args, returned, cli, target, argv, dirEntries,
                 inference, finalShowName, operations, conflicts, checked,
                 nextOp, renames>>

\* part_001: const inference = inferShowName(videoFiles.map(f => f.name))
InferName ==
  /\ pc = "listed"
  /\ cli = "infer"
  /\ inference' = inferShowName(videoFiles)
  /\ pc' = "inferred"
  /\ UNCHANGED <<args, returned, cli, target, argv, dirEntries,
                 videoFiles, finalShowName, operations, conflicts, checked,
                 nextOp, renames, output, exitCode>>

\* part_001, promptForShowName: the user accepts the prefilled name or
\* types one; the prompt only takes an input that is not blank and returns
\* it trimmed
PromptForShowName ==
  /\ pc = "inferred"
  /\ LET prefillValue == IF inference.showName = Null THEN <<>>
                         ELSE inference.showName
     IN  \E input \in {prefillValue} \cup TypedShowNames :
           /\ validShowName(input)
           /\ finalShowName' = trim(input)
  /\ pc' = "named"
  /\ UNCHANGED <<args, returned, cli, target, argv, dirEntries,
                 videoFiles, inference, operations, conflicts, checked,
                 nextOp, renames, output, exitCode>>

\* index.ts: the show name is the argument, as given
TakeShowNameArgument ==
  /\ pc = "listed"
  /\ cli = "args"
  /\ finalShowName' = showNameArgument(argv)
  /\ pc' = "named"
  /\ UNCHANGED <<args, returned, cli, target, argv, dirEntries,
                 videoFiles, inference, operations, conflicts, checked,
                 nextOp, renames, output, exitCode>>

\* const operations = videoFiles.map(...)
PlanOperations ==
  /\ pc = "named"
  /\ operations' = planOperations(finalShowName, videoFiles)
  /\ pc' = "planned"
  /\ UNCHANGED <<args, returned, cli, target, argv, dirEntries,
                 videoFiles, inference, finalShowName, conflicts, checked,
                 nextOp, renames, output, exitCode>>

\* validOps.length === 0
NothingToRename ==
  /\ pc = "planned"
  /\ Len(validOpsOf(operations)) = 0
  /\ Stop("No files with S##E## pattern found.")
  /\ UNCHANGED <<args, returned, cli, target, argv, dirEntries,
                 videoFiles, inference, finalShowName, operations, conflicts,
                 checked, nextOp, renames>>

\* const conflicts = checkForConflicts(validOps); a conflict throws
CheckConflicts ==
  /\ pc = "planned"
  /\ Len(validOpsOf(operations)) > 0
  /\ LET found == checkForConflicts(validOpsOf(operations))
     IN  /\ conflicts' = found
         /\ checked' = TRUE
         /\ IF hasConflicts(found)
              THEN Fail("Duplicate target filenames: ", join(found, <<",", " ">>))
              ELSE pc' = "confirm" /\ UNCHANGED <<output, exitCode>>
  /\ UNCHANGED <<args, returned, cli, target, argv, dirEntries,
                 videoFiles, inference, finalShowName, operations, nextOp,
                 renames>>

\* confirmRename answered yes
ConfirmRename ==
  /\ pc = "confirm"
  /\ pc' = "renaming"
  /\ nextOp' = 1
  /\ UNCHANGED <<args, returned, cli, target, argv, dirEntries,
                 videoFiles, inference, finalShowName, operations, conflicts,
                 checked, renames, output, exitCode>>

\* confirmRename answered no
DeclineRename ==
  /\ pc = "confirm"
  /\ Stop("Rename cancelled")
  /\ UNCHANGED <<args, returned, cli, target, argv, dirEntries,
                 videoFiles, inference, finalShowName, operations, conflicts,
                 checked, nextOp, renames>>

\* a loop that starts to rename while the confirmation is still asked
PerformRenameUnconfirmed ==
  /\ pc \in {"confirm", "renaming"}
  /\ LET k == IF nextOp = 0 THEN 1 ELSE nextOp
     IN  /\ k <= Len(validOpsOf(operations))
         /\ renames' = Append(renames,
                              [from |-> validOpsOf(operations)[k].oldPath,
                               to   |-> validOpsOf(operations)[k].newPath])
         /\ nextOp' = k + 1
  /\ UNCHANGED <<pc, args, returned, cli, target, argv, dirEntries,
                 videoFiles, inference, finalShowName, operations, conflicts,
                 checked, output, exitCode>>

\* one turn of `for (const op of validOps) await performRename(op)`
PerformRename ==
  /\ pc = "renaming"
  /\ nextOp <= Len(validOpsOf(operations))
  /\ LET op == validOpsOf(operations)[nextOp]
     IN  renames' = Append(renames, [from |-> op.oldPath, to |-> op.newPath])
  /\ nextOp' = nextOp + 1
  /\ UNCHANGED <<pc, args, returned, cli, target, argv, dirEntries,
                 videoFiles, inference, finalShowName, operations, conflicts,
                 checked, output, exitCode>>

\* fs.rename throws (permissions, a file that vanished, ...)
RenameFails ==
  /\ pc = "renaming"
  /\ nextOp <= Len(validOpsOf(operations))
  /\ Fail("rename failed: ", validOpsOf(operations)[nextOp].oldPath)
  /\ UNCHANGED <<args, returned, cli, target, argv, dirEntries,
                 videoFiles, inference, finalShowName, operations, conflicts,
                 checked, nextOp, renames>>

\* a loop that may report success before it has applied every operation
FinishEarly ==
  /\ pc = "renaming"
  /\ Stop("Successfully renamed file(s)")
  /\ UNCHANGED <<args, returned, cli, target, argv, dirEntries,
                 videoFiles, inference, finalShowName, operations, conflicts,
                 checked, nextOp, renames>>

\* the loop is over
Finish ==
  /\ pc = "renaming"
  /\ nextOp > Len(validOpsOf(operations))
  /\ Stop("Successfully renamed file(s)")
  /\ UNCHANGED <<args, returned, cli, target, argv, dirEntries,
                 videoFiles, inference, finalShowName, operations, conflicts,
                 checked, nextOp, renames>>

NextMain ==
  \/ Usage
  \/ PathFails
  \/ StatDirectory
  \/ PathChanges
  \/ ReadDirectoryFails
  \/ SingleFile
  \/ ReadDirectory
  \/ InferName
  \/ PromptForShowName
  \/ TakeShowNameArgument
  \/ PlanOperations
  \/ NothingToRename
  \/ CheckConflicts
  \/ ConfirmRename
  \/ DeclineRename
  \/ PerformRename
  \/ RenameFails
  \/ Finish

SpecMain == InitMain /\ [][NextMain]_vars

\* ------------------------------------------------------------------------
\* Calls of checkForConflicts on a list of operations
\* ------------------------------------------------------------------------

\* longest list of operations handed to checkForConflicts
MaxOps == 5

\* three target names
TargetNames ==
  { <<"S","h","o","w",".","S","0","1","E","0","1",".","m","k","v">>,
    <<"S","h","o","w",".","S","0","1","E","0","2",".","m","k","v">>,
    <<"S","h","o","w",".","S","0","1","E","0","3",".","m","k","v">> }

\* the operations of the lists: one per target name, and a skipped one
ConflictOperations ==
  { renameOperation(<<"x">>, t) : t \in TargetNames }
    \cup { skippedOperation(<<"x">>, NoPatternReason) }

OperationLists == StringsOver(ConflictOperations, MaxOps)

InitConflicts ==
  /\ pc = "ready"
  /\ \E ops \in OperationLists :
        args = [showName |-> <<>>, filename |-> <<>>, filenames |-> <<>>,
                operations |-> ops]
  /\ returned = NoReturn
  /\ CliIdle

CallCheckForConflicts ==
  /\ pc = "ready"
  /\ pc' = "returned"
  /\ returned' = [fn |-> "checkForConflicts",
                  value |-> checkForConflicts(args.operations)]
  /\ UNCHANGED <<args, cliVars>>

NextConflicts == CallCheckForConflicts

SpecConflicts == InitConflicts /\ [][NextConflicts]_vars

\* ------------------------------------------------------------------------
\* Claims about the library functions of one argument (SpecLib)
\* ------------------------------------------------------------------------

ExtractedName ==
  /\ pc = "returned"
  /\ returned.fn = "extractShowNameFromFilename"
  /\ returned.value # Null

\* C1: whenever extractShowNameFromFilename(f) returns a name n that is not
\* null, showNameMatchesFilename(n, f) is true, so a file that contributed
\* the inferred name is never rejected by the Match Verifier.
C1_ExtractorAgreesWithVerifier ==
  ExtractedName => showNameMatchesFilename(returned.value, args.filename)

NormalizedName == pc = "returned" /\ returned.fn = "normalizeShowName"

\* the words of a show name, as normalizeShowName splits them
wordsOf(s) == SelectSeq(splitWhitespace(s), nonEmptyWord)

hasDot(s) == \E i \in 1..Len(s) : s[i] = "."

\* C3 as stated: for every input x,
\* normalizeShowName(normalizeShowName(x).replace(".", " ")) = normalizeShowName(x),
\* names of three or more words and names that contain dots included.
C3_IdempotentThroughOutput ==
  NormalizedName =>
    normalizeShowName(replaceFirstDot(returned.value)) = returned.value

\* the characters of ASCII that occur in names
AsciiCharacters ==
  {LowerLetters[i] : i \in 1..26} \cup {UpperLetters[i] : i \in 1..26}
    \cup Digits \cup Separators \cup OpenBrackets \cup CloseBrackets
    \cup {" ", "\t", "\n", "\r", "\f", "U+000B"}

IsAscii(s) == \A i \in 1..Len(s) : s[i] \in AsciiCharacters

\* C3 as amended: the same equation for every input x of ASCII characters
\* that has at most two whitespace-separated words and contains no ".".
C3_IdempotentUpToTwoWords ==
  NormalizedName /\ IsAscii(args.showName)
    /\ Len(wordsOf(args.showName)) <= 2 /\ ~hasDot(args.showName) =>
    normalizeShowName(replaceFirstDot(returned.value)) = returned.value

\* a two-word name was normalized to two tokens joined by a dot
C3_Witness ==
  /\ NormalizedName
  /\ Len(wordsOf(args.showName)) = 2
  /\ ~hasDot(args.showName)
  /\ returned.value = <<"A", ".", "B">>

\* a marker starts at position i of s: S or s, a digits, E or e, b digits
IsMarkerAt(s, i, a, b) ==
  /\ i + a + b + 1 <= Len(s)
  /\ s[i] \in {"S", "s"}
  /\ \A k \in 1..a : s[i + k] \in Digits
  /\ s[i + a + 1] \in {"E", "e"}
  /\ \A k \in 1..b : s[i + a + 1 + k] \in Digits

ContainsMarker(s) ==
  \E i \in 1..Len(s) : \E a, b \in 1..2 : IsMarkerAt(s, i, a, b)

\* the first marker of s: the leftmost position a marker starts at, with as
\* many season digits, and then as many episode digits, as a marker allows
FirstMarker(s) ==
  LET i == MinOf({k \in 1..Len(s) : \E a, b \in 1..2 : IsMarkerAt(s, k, a, b)})
      a == MaxOf({x \in 1..2 : \E b \in 1..2 : IsMarkerAt(s, i, x, b)})
      b == MaxOf({y \in 1..2 : IsMarkerAt(s, i, a, y)})
  IN  [season  |-> SubSeq(s, i + 1, i + a),
       episode |-> SubSeq(s, i + a + 2, i + a + 1 + b)]

\* a string of one or two digits as two digits
TwoDigits(d) == IF Len(d) = 1 THEN <<"0">> \o d ELSE d

ExtractedSeasonEpisode ==
  pc = "returned" /\ returned.fn = "extractSeasonEpisode"

\* C20: for every filename that contains a marker (S or s, one or two
\* digits, E or e, one or two digits) extractSeasonEpisode returns season and
\* episode as strings of exactly two digits, the captures of the first such
\* match left-padded with "0"; for every filename without marker it returns
\* null.
C20_TwoDigitSeasonEpisode ==
  ExtractedSeasonEpisode =>
    LET f == args.filename
        v == returned.value
    IN  IF ContainsMarker(f)
          THEN /\ v # NoSeasonEpisode
               /\ v.season = TwoDigits(FirstMarker(f).season)
               /\ v.episode = TwoDigits(FirstMarker(f).episode)
               /\ Len(v.season) = 2 /\ Len(v.episode) = 2
               /\ \A k \in 1..2 : v.season[k] \in Digits /\ v.episode[k] \in Digits
          ELSE v = NoSeasonEpisode

\* the filename starts with an S that starts no marker; the marker behind it
\* has a season of one digit, which is padded, and an episode of two
C20_Witness ==
  /\ ExtractedSeasonEpisode
  /\ Len(args.filename) > 0
  /\ args.filename[1] = "s"
  /\ ~\E a, b \in 1..2 : IsMarkerAt(args.filename, 1, a, b)
  /\ returned.value = [season |-> <<"0", "1">>, episode |-> <<"1", "2">>]

\* an S or s stands at position i of s, three digits and an E or e behind it
ThreeDigitSeasonAt(s, i) ==
  /\ i + 4 <= Len(s)
  /\ s[i] \in {"S", "s"}
  /\ \A k \in 1..3 : s[i + k] \in Digits
  /\ s[i + 4] \in {"E", "e"}

\* the positions of s a marker starts at
MarkerStarts(s) ==
  {i \in 1..Len(s) : \E a, b \in 1..2 : IsMarkerAt(s, i, a, b)}

\* C21 as stated: only the first match is used, and a run of three digits
\* behind "S" that is followed by "E" and digits, as in "Show.S123E04.mkv",
\* is matched with its first two digits as the season.
C21_ThreeDigitRunGivesItsFirstTwo ==
  ExtractedSeasonEpisode =>
    LET f == args.filename
        runs == {i \in 1..Len(f) : ThreeDigitSeasonAt(f, i)}
    IN  runs # {} /\ MinOf(runs) < MinOf(MarkerStarts(f) \cup {Len(f) + 1}) =>
          returned.value.season = SubSeq(f, MinOf(runs) + 1, MinOf(runs) + 2)

\* C21 as amended: only the first match is used and the captures have one
\* or two digits; a run of three digits behind "S" is no season, so that
\* place starts no match and a filename with no other marker, as
\* "Show.S123E04.mkv", yields null; a run of three digits behind "E" gives
\* its first two digits as the episode.
C21_FirstMatchShortCaptures ==
  ExtractedSeasonEpisode =>
    LET f == args.filename
        v == returned.value
        starts == MarkerStarts(f)
    IN  /\ starts = {} => v = NoSeasonEpisode
        /\ starts # {} =>
             LET i == MinOf(starts)
                 a == IF f[i + 2] \in Digits THEN 2 ELSE 1
                 b == IF i + a + 3 <= Len(f) /\ f[i + a + 3] \in Digits
                        THEN 2 ELSE 1
             IN  /\ f[i + a + 1] \in {"E", "e"}
                 /\ v.season = TwoDigits(SubSeq(f, i + 1, i + a))
                 /\ v.episode = TwoDigits(SubSeq(f, i + a + 2, i + a + 1 + b))
        /\ \A i \in 1..Len(f) : ThreeDigitSeasonAt(f, i) => i \notin starts
        /\ (\E i \in 1..Len(f) : ThreeDigitSeasonAt(f, i))
             /\ Cardinality({i \in 1..Len(f) : f[i] \in {"E", "e"}}) = 1
             => v = NoSeasonEpisode

\* the filename with three digits behind its S yields null
C21_Witness ==
  /\ ExtractedSeasonEpisode
  /\ args.filename = <<"S","h","o","w",".","S","1","2","3","E","0","4",".","m","k","v">>
  /\ returned.value = NoSeasonEpisode

ExtractedShowName ==
  pc = "returned" /\ returned.fn = "extractShowNameFromFilename"

\* the closing brackets that end a span opened by c: any of them, or only
\* the one of the kind of c
EitherClose(c) == CloseBrackets

SameClose(c) == IF c = "[" THEN {"]"} ELSE {")"}

\* p without its spans, read from left to right: a span opens at an opening
\* bracket that has one of its closers behind it on the same line and ends
\* at the first of these closers
WithoutSpans(p, closerOf(_)) ==
  LET awaited[k \in 0..Len(p)] ==
        IF k = 0 THEN {}
        ELSE IF awaited[k - 1] # {}
          THEN IF p[k] \in awaited[k - 1] THEN {} ELSE awaited[k - 1]
        ELSE IF /\ p[k] \in OpenBrackets
                /\ \E j \in (k + 1)..Len(p) :
                     /\ p[j] \in closerOf(p[k])
                     /\ \A m \in (k + 1)..(j - 1) :
                          p[m] \notin LineTerminators
          THEN closerOf(p[k])
        ELSE {}
      kept(k) == awaited[k - 1] = {} /\ awaited[k] = {}
      positions == SelectSeq([k \in 1..Len(p) |-> k], kept)
  IN  [n \in 1..Len(positions) |-> p[positions[n]]]

\* the words of s in order: the maximal runs of characters that are no
\* delimiter
Tokens(s, delimiters) ==
  LET starts == {i \in 1..Len(s) :
                   s[i] \notin delimiters /\ (i = 1 \/ s[i - 1] \in delimiters)}
      nth(n) == CHOOSE i \in starts :
                  Cardinality({j \in starts : j < i}) = n - 1
      endOf(i) == MinOf({j \in i..Len(s) :
                           j = Len(s) \/ s[j + 1] \in delimiters})
  IN  [n \in 1..Cardinality(starts) |-> SubSeq(s, nth(n), endOf(nth(n)))]

\* first character upper-cased, the others lower-cased
TitleCased(w) ==
  IF Len(w) = 0 THEN <<>>
  ELSE toUpperCaseChar(w[1])
         \o [k \in 1..(Len(w) - 1) |-> toLowerCaseChar(w[k + 1])]

\* the name C22 describes for the filename f, with spans closed by closerOf
DescribedName(f, closerOf(_)) ==
  IF MarkerStarts(f) = {} THEN Null
  ELSE LET before == SubSeq(f, 1, MinOf(MarkerStarts(f)) - 1)
           words  == Tokens(WithoutSpans(before, closerOf),
                            Separators \cup Whitespace)
       IN  IF Len(words) = 0 THEN Null
           ELSE join([n \in 1..Len(words) |-> TitleCased(words[n])], <<" ">>)

\* what may stand for the character c in another spelling: its upper case
\* and its lower case (two letters for the sharp s), and the other separator
\* styles of a separator
OtherSpellings(c) ==
  ({toUpperCase(<<c>>), toLowerCase(<<c>>)} \ {<<c>>})
    \cup (IF c \in Separators \cup {" "}
            THEN {<<d>> : d \in (Separators \cup {" "}) \ {c}}
          ELSE {})

\* f with w in the place of its k-th character
Respelled(f, k, w) == SubSeq(f, 1, k - 1) \o w \o SubSeq(f, k + 1, Len(f))

\* a name has no opening bracket with a closing bracket behind it
NoSpanLeft(r) ==
  ~\E i, j \in 1..Len(r) :
      i < j /\ r[i] \in OpenBrackets /\ r[j] \in CloseBrackets

\* the text in front of the first marker of f is one line
OneLineBeforeMarker(f) ==
  \A k \in 1..(MinOf(MarkerStarts(f)) - 1) : f[k] \notin LineTerminators

\* a name has no separator, no white space but the blank, and no leading,
\* trailing or doubled blank
CleanName(r) ==
  /\ \A k \in 1..Len(r) : r[k] \notin Separators \cup (Whitespace \ {" "})
  /\ r[1] # " " /\ r[Len(r)] # " "
  /\ \A k \in 1..(Len(r) - 1) : ~(r[k] = " " /\ r[k + 1] = " ")

\* the result is the same when one letter changes its case or one separator
\* its style
SameForOtherSpellings ==
  \A k \in 1..Len(args.filename) :
    \A w \in OtherSpellings(args.filename[k]) :
      extractShowNameFromFilename(Respelled(args.filename, k, w))
        = returned.value

\* the result is the same when one letter of ASCII changes its case or one
\* separator its style
SameForOtherAsciiSpellings ==
  \A k \in 1..Len(args.filename) :
    args.filename[k] \in AsciiCharacters =>
      \A w \in OtherSpellings(args.filename[k]) :
        extractShowNameFromFilename(Respelled(args.filename, k, w))
          = returned.value

\* C22 as stated: extractShowNameFromFilename returns null iff the filename
\* has no marker or no word remains before the first marker after removing
\* every "[...]" and "(...)" span and turning ".", "-", "_" into spaces;
\* otherwise the remaining words, title-cased, joined by single spaces,
\* whatever the letter case and the separator style of the filename.
C22_NameBehindPairedSpans ==
  ExtractedShowName =>
    /\ returned.value = DescribedName(args.filename, SameClose)
    /\ returned.value # Null =>
         CleanName(returned.value) /\ NoSpanLeft(returned.value)
    /\ SameForOtherSpellings

\* C22 as amended: the same, a span being what runs from a "[" or "(" to the
\* first "]" or ")" behind it, of either kind, with no line terminator in
\* between; the name has no bracketed span when the text in front of the
\* marker is one line; and the name is the same for any change of separator
\* style and any change of case of a letter of ASCII, in every filename (a
\* sharp s in upper case is another name).
C22_NameBehindSpansOfEitherKind ==
  ExtractedShowName =>
    /\ returned.value = DescribedName(args.filename, EitherClose)
    /\ returned.value # Null =>
         /\ CleanName(returned.value)
         /\ OneLineBeforeMarker(args.filename) => NoSpanLeft(returned.value)
    /\ SameForOtherAsciiSpellings

\* a span opened by "[" and closed by ")" was removed and a word is left
C22_Witness ==
  /\ ExtractedShowName
  /\ returned.value = <<"A">>
  /\ Len(args.filename) = 8
  /\ args.filename[1] = "["
  /\ args.filename[3] = ")"

\* the number of "." in s
DotsIn(s) == Cardinality({k \in 1..Len(s) : s[k] = "."})

\* C23: normalizeShowName returns, for every input, the whitespace-separated
\* words of the input in order, each with its first character upper-cased
\* and the others lower-cased, joined by a single "."; the result has no
\* whitespace and no leading, trailing or doubled "." that the joining
\* introduced, and a name of one word yields that one token with no dot
\* added.
C23_WordsJoinedByDots ==
  NormalizedName =>
    LET words == Tokens(args.showName, Whitespace)
        r     == returned.value
    IN  /\ r = join([n \in 1..Len(words) |-> TitleCased(words[n])], <<".">>)
        /\ \A k \in 1..Len(r) : r[k] \notin Whitespace
        /\ DotsIn(r) = DotsIn(args.showName)
                         + (IF Len(words) = 0 THEN 0 ELSE Len(words) - 1)
        /\ Len(words) = 1 => r = TitleCased(words[1])
        /\ Len(words) = 0 => r = <<>>

\* a name with a space in front and two spaces between its two words
C23_Witness ==
  /\ NormalizedName
  /\ args.showName = <<" ", "a", " ", " ", "B">>
  /\ returned.value = <<"A", ".", "B">>

\* ------------------------------------------------------------------------
\* Claims about inferShowName (SpecInfer)
\* ------------------------------------------------------------------------

Inferred == pc = "returned" /\ returned.fn = "inferShowName"

\* the non-null candidates of the call, in input order
Candidates == extractedNames(args.filenames)

\* the highest count of a name of the list names
HighestCount(names) ==
  MaxOf({occurrences(names, names[i]) : i \in 1..Len(names)})

\* the names that have the highest count
TiedNames(names) ==
  LET highest == HighestCount(names)
  IN  {names[i] : i \in {j \in 1..Len(names) :
                           occurrences(names, names[j]) = highest}}

\* position of the first occurrence, and of the last one, of a name
FirstSeenAt(names, name) == MinOf({i \in 1..Len(names) : names[i] = name})

LastSeenAt(names, name) == MaxOf({i \in 1..Len(names) : names[i] = name})

\* the tied name that occurs first in the input
FirstSeenTied(names) ==
  LET tied == TiedNames(names)
  IN  CHOOSE n \in tied :
        \A m \in tied : FirstSeenAt(names, n) <= FirstSeenAt(names, m)

\* the tied name whose running count reaches the highest count first: the
\* one whose last occurrence comes first
FirstToReachMax(names) ==
  LET tied == TiedNames(names)
  IN  CHOOSE n \in tied :
        \A m \in tied : LastSeenAt(names, n) <= LastSeenAt(names, m)

\* several distinct names share the highest count
IsTie(names) == Len(names) > 0 /\ Cardinality(TiedNames(names)) > 1

\* C4: with maxCount the count of the winning name and total the number of
\* non-null candidates, confidence is "high" iff maxCount = total, "medium"
\* iff 5*maxCount >= 4*total and maxCount < total, "low" iff
\* 5*maxCount < 4*total, and nothing else.
C4_ConfidenceThresholds ==
  Inferred =>
    LET names    == Candidates
        maxCount == occurrences(names, returned.value.showName)
        total    == Len(names)
        conf     == returned.value.confidence
    IN  total > 0 =>
          /\ conf \in {"high", "medium", "low"}
          /\ conf = "high" <=> maxCount = total
          /\ conf = "medium" <=> (5 * maxCount >= 4 * total /\ maxCount < total)
          /\ conf = "low" <=> 5 * maxCount < 4 * total

\* four of five candidates agree: exactly 80%, classified "medium"
C4_Witness ==
  /\ Inferred
  /\ Len(Candidates) = 5
  /\ occurrences(Candidates, returned.value.showName) = 4
  /\ returned.value.confidence = "medium"

\* C5: when several distinct candidate names share the highest count, the
\* showName returned is the tied name seen first in the input.
C5_TieGoesToFirstSeen ==
  Inferred =>
    LET names == Candidates
    IN  IsTie(names) => returned.value.showName = FirstSeenTied(names)

\* a tie whose first-seen name is not the first candidate of the input
C5_Witness ==
  /\ Inferred
  /\ LET names == Candidates
     IN  /\ IsTie(names)
         /\ FirstSeenTied(names) # names[1]
         /\ returned.value.showName = FirstSeenTied(names)

\* C6 as stated: when several distinct candidate names share the highest
\* count, the showName returned is the name whose running count reaches that
\* count first while the input is scanned in order.
C6_TieGoesToFirstToReachMax ==
  Inferred =>
    LET names == Candidates
    IN  IsTie(names) => returned.value.showName = FirstToReachMax(names)

\* C6 as amended: in a tie the name whose running count reaches the highest
\* count first is returned only if it is also the tied name seen first;
\* otherwise the tied name seen first is returned, as for [B, A, A, B],
\* which gives B.
C6_TieIgnoresWhoReachesMaxFirst ==
  Inferred =>
    LET names   == Candidates
        reached == FirstToReachMax(names)
        seen    == FirstSeenTied(names)
    IN  IsTie(names) =>
          /\ reached = seen => returned.value.showName = reached
          /\ reached # seen =>
               /\ returned.value.showName # reached
               /\ returned.value.showName = seen

\* a tie in which another name than the first-seen one reaches the count first
C6_Witness ==
  /\ Inferred
  /\ LET names == Candidates
     IN  /\ Len(names) = 4
         /\ Cardinality(TiedNames(names)) = 2
         /\ FirstToReachMax(names) # FirstSeenTied(names)
         /\ returned.value.showName = FirstSeenTied(names)

\* the list l with the elements at i and j exchanged
Exchange(l, i, j) ==
  [k \in 1..Len(l) |-> IF k = i THEN l[j] ELSE IF k = j THEN l[i] ELSE l[k]]

\* the pairs of positions i < j of a list
PositionPairs(l) == {p \in (1..Len(l)) \X (1..Len(l)) : p[1] < p[2]}

\* C7 as stated: for every input and every permutation of it the showName
\* and the confidence returned are the same.  Every permutation is a product
\* of exchanges of two elements and the inputs range over all lists, so the
\* claim is that no exchange changes the result.
C7_OrderDoesNotMatter ==
  Inferred =>
    \A p \in PositionPairs(args.filenames) :
      LET other == inferShowName(Exchange(args.filenames, p[1], p[2]))
      IN  /\ other.showName = returned.value.showName
          /\ other.confidence = returned.value.confidence

\* C7 as amended: the confidence is the same for every permutation of the
\* input, and so is the showName whenever a single name has the highest
\* count; in a tie the showName depends on the order.
C7_OrderMattersOnlyInTies ==
  Inferred =>
    LET tie == IsTie(Candidates)
    IN  \A p \in PositionPairs(args.filenames) :
          LET other == inferShowName(Exchange(args.filenames, p[1], p[2]))
          IN  /\ other.confidence = returned.value.confidence
              /\ ~tie => other.showName = returned.value.showName

\* a single winner that is not the first name of the input
C7_Witness ==
  /\ Inferred
  /\ LET names == Candidates
     IN  /\ Len(names) >= 3
         /\ ~IsTie(names)
         /\ returned.value.showName # names[1]
         /\ returned.value.confidence = "low"

\* the files of the show "A B" in the inputs: ".", "-", "_" and " " as
\* separators, lower and upper case
ShowAFiles ==
  { <<"a",".","b","-","s","1","e","1">>, <<"A","_","B"," ","S","1","E","2">> }

\* C8: whenever every non-null candidate is the same name (at least one
\* candidate, whatever the separators and the letter case of each file),
\* inferShowName returns that name with confidence "high" and without
\* conflictingNames.
C8_UnanimousIsHigh ==
  /\ Inferred =>
       LET names == Candidates
       IN  Len(names) > 0 /\ (\A i \in 1..Len(names) : names[i] = names[1]) =>
             returned.value = [showName |-> names[1], confidence |-> "high",
                               conflictingNames |-> Undefined]
  /\ Inferred /\ (\E i \in 1..Len(args.filenames) : args.filenames[i] \in ShowAFiles)
       /\ (\A i \in 1..Len(args.filenames) :
             \/ args.filenames[i] \in ShowAFiles
             \/ extractShowNameFromFilename(args.filenames[i]) = Null) =>
       returned.value = [showName |-> <<"A"," ","B">>, confidence |-> "high",
                         conflictingNames |-> Undefined]

\* files of one show in two styles, and a file without candidate, gave "high"
C8_Witness ==
  /\ Inferred
  /\ ShowAFiles \subseteq {args.filenames[i] : i \in 1..Len(args.filenames)}
  /\ Len(Candidates) < Len(args.filenames)
  /\ returned.value = [showName |-> <<"A"," ","B">>, confidence |-> "high",
                       conflictingNames |-> Undefined]

NullResult ==
  [showName |-> Null, confidence |-> "low", conflictingNames |-> Undefined]

hasMarker(f) == SEASON_EPISODE_REGEX(f).found

\* C9 as stated: inferShowName returns showName null, "low" and no
\* conflictingNames for the empty input and for every input none of whose
\* filenames yields a candidate, these being the inputs whose files all lack
\* a season/episode marker; conversely showName is null only in those cases.
C9_NullIffNoMarker ==
  Inferred =>
    /\ (\A i \in 1..Len(args.filenames) : ~hasMarker(args.filenames[i])) =>
          returned.value = NullResult
    /\ returned.value.showName = Null =>
          \A i \in 1..Len(args.filenames) : ~hasMarker(args.filenames[i])

\* C9 as amended: the same for the empty input and for every input none of
\* whose filenames yields a candidate, a file yielding none when it has no
\* marker or no word in front of its first marker; conversely showName is
\* null only in those cases.
C9_NullIffNoCandidate ==
  Inferred =>
    /\ (\A i \in 1..Len(args.filenames) :
          extractShowNameFromFilename(args.filenames[i]) = Null) =>
          returned.value = NullResult
    /\ returned.value.showName = Null =>
          \A i \in 1..Len(args.filenames) :
            extractShowNameFromFilename(args.filenames[i]) = Null

\* a non-empty input, one file with a marker and no name, gave the null result
C9_Witness ==
  /\ Inferred
  /\ Len(args.filenames) >= 2
  /\ \E i \in 1..Len(args.filenames) : hasMarker(args.filenames[i])
  /\ \E i \in 1..Len(args.filenames) : ~hasMarker(args.filenames[i])
  /\ returned.value = NullResult

\* the list l with x put in front of its element k + 1 (at the end for k = Len(l))
InsertAt(l, k, x) == SubSeq(l, 1, k) \o <<x>> \o SubSeq(l, k + 1, Len(l))

MarkerlessFiles == {f \in InferFilenames : ~hasMarker(f)}

\* C10: filenames that yield no candidate are discarded before the tally:
\* adding marker-less filenames to an input, anywhere, leaves showName,
\* confidence and conflictingNames unchanged.  Adding several is adding one
\* at a time, and the inputs range over all lists.
C10_MarkerlessFilesChangeNothing ==
  Inferred =>
    \A g \in MarkerlessFiles : \A k \in 0..Len(args.filenames) :
      inferShowName(InsertAt(args.filenames, k, g)) = returned.value

\* two files of one show and two marker-less files gave "high"
C10_Witness ==
  /\ Inferred
  /\ Len(args.filenames) = 4
  /\ Len(Candidates) = 2
  /\ Cardinality({i \in 1..4 : args.filenames[i] \in MarkerlessFiles}) = 2
  /\ returned.value.confidence = "high"

\* the distinct candidate names other than the winner
OtherNames(names, winner) == {names[i] : i \in 1..Len(names)} \ {winner}

\* list holds exactly the names of the set S, each once, in the order of
\* their first occurrence in names
IsFirstSeenListing(list, names, S) ==
  /\ {list[i] : i \in 1..Len(list)} = S
  /\ \A i, j \in 1..Len(list) :
        i < j => FirstSeenAt(names, list[i]) < FirstSeenAt(names, list[j])

\* C11: for a "medium" or "low" result with a non-null showName,
\* conflictingNames is exactly the distinct extracted names other than
\* showName, each once, in first-seen order; it never contains showName and
\* is omitted, not an empty list, when there are none.
C11_ConflictingNamesAreTheOthers ==
  Inferred =>
    LET names == Candidates
        r     == returned.value
    IN  r.confidence \in {"medium", "low"} /\ r.showName # Null =>
          LET others == OtherNames(names, r.showName)
          IN  IF others = {}
                THEN r.conflictingNames = Undefined
                ELSE /\ r.conflictingNames # Undefined
                     /\ r.conflictingNames # <<>>
                     /\ IsFirstSeenListing(r.conflictingNames, names, others)
                     /\ \A i \in 1..Len(r.conflictingNames) :
                           r.conflictingNames[i] # r.showName

\* a "low" result whose winner was not seen first: two other names are
\* listed, one seen before the winner and one after it
C11_Witness ==
  /\ Inferred
  /\ returned.value.confidence = "low"
  /\ returned.value.conflictingNames # Undefined
  /\ Len(returned.value.conflictingNames) = 2
  /\ LET names == Candidates
     IN  /\ returned.value.conflictingNames[1] = names[1]
         /\ FirstSeenAt(names, returned.value.showName)
               < FirstSeenAt(names, returned.value.conflictingNames[2])

\* C12: for every input, conflictingNames is present only if at least one
\* extracted name differs from the chosen showName, and it is never present
\* when confidence is "high".
C12_ConflictingNamesOnlyWhenSomeDiffer ==
  Inferred =>
    LET names == Candidates
        r     == returned.value
    IN  r.conflictingNames # Undefined =>
          /\ OtherNames(names, r.showName) # {}
          /\ r.confidence # "high"

\* a "medium" result that lists the one name that differs
C12_Witness ==
  /\ Inferred
  /\ returned.value.confidence = "medium"
  /\ returned.value.conflictingNames # Undefined
  /\ Len(returned.value.conflictingNames) = 1
  /\ returned.value.conflictingNames[1] # returned.value.showName

\* the candidate of the i-th file of the call, null for a file without name
CandidateOf(i) == extractShowNameFromFilename(args.filenames[i])

\* the files of the call that have a candidate
WithCandidate == {i \in 1..Len(args.filenames) : CandidateOf(i) # Null}

\* the number of files whose candidate is name
CountOf(name) == Cardinality({i \in WithCandidate : CandidateOf(i) = name})

\* the sum of the counts the tally holds for its first k keys
RECURSIVE TallySum(_, _, _)
TallySum(names, keys, k) ==
  IF k = 0 THEN 0
  ELSE TallySum(names, keys, k - 1) + occurrences(names, keys[k])

\* C30: the winner of inferShowName: a showName that is not null is one of
\* the extracted candidates and no candidate occurs more often than it; the
\* counts of the tally add up to the number of non-null candidates, so
\* 1 <= maxCount <= total and the match percentage lies in (0, 100].
C30_WinnerIsMostFrequentCandidate ==
  Inferred =>
    LET v     == returned.value
        names == extractedNames(args.filenames)
        keys  == insertionOrder(names)
        best  == mostCommon(names, keys, Len(keys))
    IN  /\ v.showName # Null =>
             /\ \E i \in WithCandidate : CandidateOf(i) = v.showName
             /\ \A i \in WithCandidate :
                  CountOf(v.showName) >= CountOf(CandidateOf(i))
        /\ TallySum(names, keys, Len(keys)) = Cardinality(WithCandidate)
        /\ Len(names) = Cardinality(WithCandidate)
        /\ WithCandidate # {} =>
             /\ v.showName = best.name
             /\ best.count = CountOf(v.showName)
             /\ 1 <= best.count /\ best.count <= Len(names)
             /\ 0 < best.count * 100
             /\ best.count * 100 <= 100 * Len(names)

\* two or more candidates in the tally, the winner with more files than each
\* of the others, and a file without candidate
C30_Witness ==
  /\ Inferred
  /\ returned.value.showName # Null
  /\ Cardinality({CandidateOf(i) : i \in WithCandidate}) >= 2
  /\ \A i \in WithCandidate :
       CandidateOf(i) # returned.value.showName =>
         CountOf(returned.value.showName) > CountOf(CandidateOf(i))
  /\ Cardinality(WithCandidate) < Len(args.filenames)

\* ------------------------------------------------------------------------
\* Claims about showNameMatchesFilename (SpecMatch)
\* ------------------------------------------------------------------------

Matched == pc = "returned" /\ returned.fn = "showNameMatchesFilename"

\* the words of s: its maximal runs of characters that are no delimiter
WordSet(s, delimiters) ==
  { SubSeq(s, i, j) : <<i, j>> \in
      { p \in (1..Len(s)) \X (1..Len(s)) :
          /\ p[1] <= p[2]
          /\ \A k \in p[1]..p[2] : s[k] \notin delimiters
          /\ p[1] = 1 \/ s[p[1] - 1] \in delimiters
          /\ p[2] = Len(s) \/ s[p[2] + 1] \in delimiters } }

\* the words of a filename, case kept, in order
fileWordsOf(s) == SelectSeq(splitWhitespace(replaceSeparators(s)), nonEmptyWord)

\* C13: showNameMatchesFilename(showName, filename) is true iff every
\* lower-cased whitespace-separated word of showName equals some whole word
\* of the filename after replacing ".", "-", "_" by spaces and lower-casing
\* (a show word that is only part of a filename word does not match), and
\* the result does not depend on the order of the words of either argument.
C13_MatchesWholeWordsInAnyOrder ==
  Matched =>
    LET showWords == wordsOf(args.showName)
        fileWords == fileWordsOf(args.filename)
    IN  /\ returned.value =
             (WordSet(toLowerCase(args.showName), Whitespace)
                \subseteq WordSet(toLowerCase(args.filename),
                                  Whitespace \cup Separators))
        /\ \A p \in PositionPairs(showWords) :
             showNameMatchesFilename(
               join(Exchange(showWords, p[1], p[2]), <<" ">>), args.filename)
             = returned.value
        /\ \A p \in PositionPairs(fileWords) :
             showNameMatchesFilename(
               args.showName, join(Exchange(fileWords, p[1], p[2]), <<".">>))
             = returned.value

\* a show word that is part of a longer filename word is rejected
C13_Witness ==
  /\ Matched
  /\ returned.value = FALSE
  /\ Len(wordsOf(args.showName)) = 2
  /\ showNameMatchesFilenameBySubstring(args.showName, args.filename)

\* ------------------------------------------------------------------------
\* Claims about checkForConflicts (SpecConflicts)
\* ------------------------------------------------------------------------

ConflictsChecked == pc = "returned" /\ returned.fn = "checkForConflicts"

\* the newName of every operation of the call, in order
TargetsOfCall ==
  [i \in 1..Len(args.operations) |-> args.operations[i].newName]

\* the names that are the newName of two or more operations
SharedTargets(targets) ==
  { targets[i] : i \in { k \in 1..Len(targets) :
      \E j \in 1..Len(targets) : j # k /\ targets[j] = targets[k] } }

\* C17: checkForConflicts returns exactly the target names that are the
\* newName of two or more input operations, each once and in first-seen
\* order however many operations share it; it returns the empty list when
\* all targets are unique, for the empty list and for a single operation.
C17_ConflictsAreTheSharedTargets ==
  ConflictsChecked =>
    LET targets == TargetsOfCall
        shared  == SharedTargets(targets)
    IN  /\ IsFirstSeenListing(returned.value, targets, shared)
        /\ Len(returned.value) = Cardinality(shared)
        /\ Len(targets) <= 1 => returned.value = <<>>
        /\ shared = {} => returned.value = <<>>

\* two names are shared, one by three operations; the name seen first is
\* listed first although the other name was the first to be seen twice
C17_Witness ==
  /\ ConflictsChecked
  /\ Len(returned.value) = 2
  /\ LET targets == TargetsOfCall
     IN  /\ Len(targets) = 5
         /\ targets[1] = returned.value[1]
         /\ targets[2] = returned.value[2]
         /\ targets[3] = returned.value[2]
         /\ occurrences(targets, returned.value[1]) = 3

\* ------------------------------------------------------------------------
\* Claims about a run of the CLI (SpecMain)
\* ------------------------------------------------------------------------

\* the target names that two or more non-skipped operations share
DuplicateTargets(ops) ==
  {ops[i].newName : i \in {k \in 1..Len(ops) :
      /\ ~ops[k].skipped
      /\ \E j \in 1..Len(ops) :
            j # k /\ ~ops[j].skipped /\ ops[j].newName = ops[k].newName}}

ErrorsPrinted == SelectSeq(output, LAMBDA o : o.stream = "stderr")

\* C2: conflict detection is a strict barrier: no rename is performed before
\* checkForConflicts has run over the batch, and when two non-skipped
\* operations share a target no rename is performed at all; the run fails
\* with the single error "Duplicate target filenames: ..." that lists every
\* conflicting name, and exits with code 1.
C2_ConflictBarrier ==
  /\ Len(renames) > 0 => checked /\ conflicts = <<>>
  /\ DuplicateTargets(operations) # {} => Len(renames) = 0
  /\ pc = "exited" /\ DuplicateTargets(operations) # {} =>
       /\ exitCode = 1
       /\ checked
       /\ {conflicts[i] : i \in 1..Len(conflicts)} = DuplicateTargets(operations)
       /\ Len(conflicts) = Cardinality(DuplicateTargets(operations))
       /\ ErrorsPrinted =
            << [stream  |-> "stderr",
                message |-> "Duplicate target filenames: ",
                detail  |-> join(conflicts, <<",", " ">>)] >>

\* a batch with a duplicate target was stopped, next to a file it would
\* have renamed without conflict
C2_Witness ==
  /\ pc = "exited"
  /\ DuplicateTargets(operations) # {}
  /\ Len(validOpsOf(operations)) = 3
  /\ exitCode = 1
  /\ renames = <<>>

\* the plan of the run has been built
Planned ==
  \/ pc \in {"planned", "confirm", "renaming"}
  \/ pc = "exited" /\ videoFiles # <<>>

\* C14: the planner builds exactly one RenameOperation per candidate file,
\* in input order, and decides it by this precedence: no season/episode
\* marker, skipped with reason "No S##E## pattern found" (even if the show
\* name does not match either); else the Match Verifier rejects, skipped with
\* reason "Show name not found in filename"; else not skipped.
C14_PlannerPrecedence ==
  Planned =>
    /\ Len(operations) = Len(videoFiles)
    /\ \A i \in 1..Len(operations) :
         LET op == operations[i]
             f  == videoFiles[i]
         IN  /\ op.oldName = f
             /\ IF ~ContainsMarker(f)
                  THEN op.skipped /\ op.reason = "No S##E## pattern found"
                ELSE IF ~showNameMatchesFilename(finalShowName, f)
                  THEN op.skipped /\ op.reason = "Show name not found in filename"
                ELSE ~op.skipped

\* a plan of three files: one without marker that does not match the show
\* name either, one with a marker that does not match, and one that is
\* renamed
C14_Witness ==
  /\ Planned
  /\ Len(operations) = 3
  /\ \E i, j, k \in 1..3 :
       /\ ~ContainsMarker(videoFiles[i])
       /\ ~showNameMatchesFilename(finalShowName, videoFiles[i])
       /\ operations[i].reason = "No S##E## pattern found"
       /\ ContainsMarker(videoFiles[j])
       /\ operations[j].reason = "Show name not found in filename"
       /\ ~operations[k].skipped

\* C15: over every plan, an operation with skipped true has empty newPath
\* and newName and one of the two fixed reasons; an operation with skipped
\* false has non-empty newPath and newName and no reason.
C15_OperationInvariant ==
  Planned =>
    \A i \in 1..Len(operations) :
      LET op == operations[i]
      IN  IF op.skipped
            THEN /\ op.newPath = <<>>
                 /\ op.newName = <<>>
                 /\ op.reason \in {"No S##E## pattern found",
                                   "Show name not found in filename"}
            ELSE /\ op.newPath # <<>>
                 /\ op.newName # <<>>
                 /\ op.reason = NoReason

\* a plan of two files, the first skipped and the second renamed
C15_Witness ==
  /\ Planned
  /\ Len(operations) = 2
  /\ operations[1].skipped
  /\ operations[1].newName = <<>>
  /\ ~operations[2].skipped
  /\ operations[2].newName # <<>>

\* from the last "." of a name to its end
LastDotSegment(name) ==
  SubSeq(name, MaxOf({i \in 1..Len(name) : name[i] = "."}), Len(name))

\* C16: for every operation that is not skipped, newName is
\* normalizeShowName(confirmed name) + ".S" + season + "E" + episode +
\* extension, with season and episode the zero-padded values of the first
\* marker of the file and the extension the last dot-segment of the old
\* name, case kept; everything else of the old name is dropped:
\* "The.Rookie.S04E01.720p.mkv" becomes "The.Rookie.S04E01.mkv".
C16_NewNameFormat ==
  Planned =>
    \A i \in 1..Len(operations) :
      LET op == operations[i]
      IN  ~op.skipped =>
            LET marker == FirstMarker(op.oldName)
            IN  op.newName =
                  normalizeShowName(finalShowName) \o <<".", "S">>
                    \o TwoDigits(marker.season) \o <<"E">>
                    \o TwoDigits(marker.episode)
                    \o LastDotSegment(op.oldName)

\* the file of the test-suite was planned under the name inferred from it
\* and lost its resolution tag
C16_Witness ==
  /\ Planned
  /\ cli = "infer"
  /\ \E i \in 1..Len(operations) :
       /\ operations[i].oldName = <<"T","h","e",".","R","o","o","k","i","e",".","S","0","4","E","0","1",".","7","2","0","p",".","m","k","v">>
       /\ ~operations[i].skipped
       /\ operations[i].newName = <<"T","h","e",".","R","o","o","k","i","e",".","S","0","4","E","0","1",".","m","k","v">>

\* the run stopped on the error of the conflict check
AbortedOnConflict ==
  \E i \in 1..Len(output) : output[i].message = "Duplicate target filenames: "

\* C18: duplicate targets are looked for among the operations that are not
\* skipped: a skipped operation, whose newName is empty, never contributes a
\* conflicting name, so a batch with two or more skipped files and unique
\* planned targets has no conflict and is not aborted.
C18_SkippedNeverConflict ==
  checked =>
    /\ \A i \in 1..Len(conflicts) :
         /\ conflicts[i] # <<>>
         /\ \E k \in 1..Len(operations) :
              ~operations[k].skipped /\ operations[k].newName = conflicts[i]
    /\ DuplicateTargets(operations) = {} =>
         conflicts = <<>> /\ ~AbortedOnConflict

\* two files are skipped, the third has a target of its own: the check has
\* found nothing and the run asks for confirmation
C18_Witness ==
  /\ checked
  /\ pc = "confirm"
  /\ Len(operations) = 3
  /\ Cardinality({i \in 1..3 : operations[i].skipped}) = 2
  /\ conflicts = <<>>

\* the run stopped on the error of a rename
AbortedOnRename ==
  \E i \in 1..Len(output) : output[i].message = "rename failed: "

\* the user declined the confirmation
Declined ==
  \E i \in 1..Len(output) : output[i].message = "Rename cancelled"

\* where the i-th video file of the run stands
FileState(i) ==
  IF ~Planned THEN "Unprocessed"
  ELSE IF operations[i].skipped THEN "Skipped"
  ELSE IF \E k \in 1..Len(renames) : renames[k].from = operations[i].oldPath
    THEN "Applied"
  ELSE IF Declined THEN "Cancelled"
  ELSE "Planned"

TerminalStates == {"Skipped", "Applied", "Cancelled"}

\* the moves of the lifecycle
LifecycleMoves ==
  { <<"Unprocessed", "Skipped">>, <<"Unprocessed", "Planned">>,
    <<"Planned", "Applied">>, <<"Planned", "Cancelled">> }

\* a step of the run moves every file along the lifecycle, or leaves it
\* where it is; a file is Unprocessed when the run finds it
LifecycleStep ==
  \A i \in 1..Len(videoFiles') :
    LET before == IF i <= Len(videoFiles) THEN FileState(i) ELSE "Unprocessed"
        after  == FileState(i)'
    IN  before = after \/ <<before, after>> \in LifecycleMoves

\* C19 as stated: every run ends with each file Skipped, Applied or
\* Cancelled; no run terminates with a file still Planned, runs that abort on
\* a conflict or on a failed rename included.
C19_NoFilePlannedAtExit ==
  pc = "exited" =>
    \A i \in 1..Len(videoFiles) : FileState(i) \in TerminalStates

\* C19 as amended: every file starts Unprocessed and moves to Skipped or
\* Planned, and from Planned to Applied or Cancelled; a run that ends with
\* exit code 0 leaves each file Skipped, Applied or Cancelled, and a file is
\* still Planned at the end only of a run that aborted with exit code 1 on a
\* duplicate target or on a failed rename.
C19_PlannedAtExitOnlyAfterAbort ==
  /\ [][LifecycleStep]_vars
  /\ [](pc = "exited" =>
          \A i \in 1..Len(videoFiles) :
            \/ FileState(i) \in TerminalStates
            \/ /\ FileState(i) = "Planned"
               /\ exitCode = 1
               /\ AbortedOnConflict \/ AbortedOnRename)

\* a run that ended on a failed rename: one file is renamed, another is
\* still planned
C19_Witness ==
  /\ pc = "exited"
  /\ AbortedOnRename
  /\ \E i, j \in 1..Len(videoFiles) :
       FileState(i) = "Applied" /\ FileState(j) = "Planned"

\* the user answered yes to the confirmation
Confirmed == nextOp >= 1

\* the run reported success
Succeeded ==
  \E i \in 1..Len(output) : output[i].message = "Successfully renamed file(s)"

\* the rename calls that apply every non-skipped operation, in plan order
RenamesOf(ops) ==
  LET valid == SelectSeq(ops, LAMBDA op : ~op.skipped)
  IN  [k \in 1..Len(valid) |->
         [from |-> valid[k].oldPath, to |-> valid[k].newPath]]

\* C25: renames are gated: a rename is made only for an operation that is
\* not skipped, and only after the whole plan was built, the conflict set
\* was empty and the user answered yes; a declined confirmation and a plan
\* with no non-skipped operation give no rename; a skipped file does not keep
\* the planned files of its batch from being renamed.
C25_RenamesAreGated ==
  /\ Len(renames) > 0 =>
       /\ Planned /\ Len(operations) = Len(videoFiles)
       /\ checked /\ conflicts = <<>>
       /\ Confirmed /\ ~Declined
       /\ Len(renames) <= Len(RenamesOf(operations))
       /\ renames = SubSeq(RenamesOf(operations), 1, Len(renames))
  /\ Declined => renames = <<>>
  /\ Planned /\ (\A i \in 1..Len(operations) : operations[i].skipped) =>
       renames = <<>>
  /\ Succeeded => renames = RenamesOf(operations)

\* a batch with a skipped file between two planned files: both planned
\* files were renamed and the run reported success
C25_Witness ==
  /\ Succeeded
  /\ Len(operations) = 3
  /\ ~operations[1].skipped
  /\ operations[2].skipped
  /\ ~operations[3].skipped
  /\ Len(renames) = 2

\* the normalized form of the confirmed show name holds no marker
MarkerFreeShowName == ~ContainsMarker(normalizeShowName(finalShowName))

\* C26: overwrite safety of a conflict-free plan: for a batch of distinct
\* filenames and a confirmed show name whose normalized form holds no
\* marker, if checkForConflicts over the non-skipped operations is empty, no
\* non-skipped operation has the oldName of a different file of the batch as
\* its newName, so the renames applied one after another in plan order never
\* rename onto another file of the batch.
C26_NoRenameOntoAnotherFile ==
  checked /\ conflicts = <<>> /\ MarkerFreeShowName =>
    /\ \A i, j \in 1..Len(operations) :
         i # j /\ ~operations[i].skipped =>
           operations[i].newName # operations[j].oldName
    /\ \A k \in 1..Len(renames) :
         \A j \in 1..Len(operations) :
           renames[k].to = operations[j].oldPath =>
             renames[k].from = operations[j].oldPath
    /\ \A k, l \in 1..Len(renames) : k # l => renames[k].to # renames[l].to

\* the plan of a file that bears the target name of operation op, made for
\* the same show name
Replanned(op) ==
  planOperation(finalShowName, normalizeShowName(finalShowName), op.newName)

\* planning the target of op again gives that target, and the marker read
\* from the target is the one read from the file it was built for
IdempotentOn(op) ==
  /\ ~Replanned(op).skipped
  /\ Replanned(op).newName = op.newName
  /\ extractSeasonEpisode(op.newName) = extractSeasonEpisode(op.oldName)

\* C27: planning is idempotent on its own output: for every
\* non-skipped operation with newName T made for a confirmed show name s
\* whose normalized form holds no marker, planning a file named T with the
\* same s is again non-skipped with newName T, and extractSeasonEpisode(T)
\* returns the season and episode that were used to build T.
C27_PlanningIsIdempotent ==
  Planned /\ MarkerFreeShowName =>
    \A i \in 1..Len(operations) :
      ~operations[i].skipped => IdempotentOn(operations[i])

\* ------------------------------------------------------------------------
\* Claims about all the functions of the library (Spec)
\* ------------------------------------------------------------------------

\* a separator stands in the show name, so in one of its words
HasSeparatorWord(showName) ==
  \E i \in 1..Len(showName) : showName[i] \in Separators

\* C28: show-name words are not separator-normalized: if a
\* whitespace-separated word of the show name holds ".", "-" or "_",
\* showNameMatchesFilename returns false for every filename, so every file
\* of the batch that has a marker is skipped with "Show name not found in
\* filename".
C28_SeparatorInShowNameNeverMatches ==
  /\ Matched /\ HasSeparatorWord(args.showName) => returned.value = FALSE
  /\ Planned /\ HasSeparatorWord(finalShowName) =>
       \A i \in 1..Len(operations) :
         ContainsMarker(operations[i].oldName) =>
           /\ operations[i].skipped
           /\ operations[i].reason = "Show name not found in filename"

\* the show name "Spider-Man" was rejected for the file that spells it so
C28_Witness ==
  /\ Matched
  /\ args.showName = <<"S","p","i","d","e","r","-","M","a","n">>
  /\ args.filename =
       <<"S","p","i","d","e","r","-","M","a","n",".","S","0","1","E","0","1",".","m","k","v">>
  /\ returned.value = FALSE

\* a file whose name begins with the typed show name "b-" was skipped
C28_WitnessPlanned ==
  /\ Planned /\ HasSeparatorWord(finalShowName)
  /\ \E i \in 1..Len(operations) : ContainsMarker(operations[i].oldName)

\* the show name has no word: it is empty or holds whitespace only
NoWords(showName) ==
  \A i \in 1..Len(showName) : showName[i] \in Whitespace

\* a target made of the marker and the extension alone: ".S##E##<ext>"
IsNamelessTarget(newName, oldName) ==
  /\ Len(newName) >= 7
  /\ newName[1] = "." /\ newName[2] = "S" /\ newName[5] = "E"
  /\ \A i \in {3, 4, 6, 7} : newName[i] \in Digits
  /\ SubSeq(newName, 8, Len(newName)) = LastDotSegment(oldName)

\* C29: a show name with no words (empty or whitespace-only) matches every
\* filename: showNameMatchesFilename returns true for it against any
\* filename, and normalizeShowName maps it to the empty string, so the
\* planner makes targets of the form ".S##E##<ext>" for it; the CLI with
\* inference never plans for such a name, because its prompt accepts no
\* input that is empty after trimming.
C29_BlankShowNameMatchesEverything ==
  /\ Matched /\ NoWords(args.showName) => returned.value = TRUE
  /\ pc = "returned" /\ returned.fn = "normalizeShowName"
       /\ NoWords(args.showName) => returned.value = <<>>
  /\ Planned /\ NoWords(finalShowName) =>
       \A i \in 1..Len(operations) :
         ContainsMarker(operations[i].oldName) =>
           /\ ~operations[i].skipped
           /\ IsNamelessTarget(operations[i].newName, operations[i].oldName)
  /\ Planned /\ cli = "infer" => ~NoWords(finalShowName)

\* index.ts was given a blank as show name and planned a nameless target
C29_Witness ==
  /\ Planned /\ cli = "args" /\ NoWords(finalShowName)
  /\ \E i \in 1..Len(operations) :
       /\ ~operations[i].skipped
       /\ IsNamelessTarget(operations[i].newName, operations[i].oldName)

\* the characters of the modelled strings
Characters ==
  {LowerLetters[i] : i \in 1..26} \cup {UpperLetters[i] : i \in 1..26}
    \cup Digits \cup Whitespace \cup Separators
    \cup OpenBrackets \cup CloseBrackets \cup {"ß"}

IsString(v) ==
  /\ DOMAIN v = 1..Len(v)
  /\ \A k \in 1..Len(v) : v[k] \in Characters

IsStringList(v) ==
  /\ v # Undefined
  /\ DOMAIN v = 1..Len(v)
  /\ \A k \in 1..Len(v) : IsString(v[k])

\* the value is one the function named fn can return
IsResultOf(fn, v) ==
  CASE fn = "normalizeShowName" -> IsString(v)
    [] fn = "extractSeasonEpisode" ->
         v # Thrown /\ (v = NoSeasonEpisode
                          \/ (IsString(v.season) /\ IsString(v.episode)))
    [] fn = "isVideoFile" -> v \in BOOLEAN
    [] fn = "showNameMatchesFilename" -> v \in BOOLEAN
    [] fn = "extractShowNameFromFilename" -> v = Null \/ IsString(v)
    [] fn = "checkForConflicts" -> IsStringList(v)
    [] fn = "inferShowName" ->
         /\ v.showName = Null \/ IsString(v.showName)
         /\ v.confidence \in {"high", "medium", "low"}
         /\ v.conflictingNames = Undefined \/ IsStringList(v.conflictingNames)
    [] OTHER -> FALSE

\* C24: the functions of the library are total: for every string and every
\* list, the empty string, blank strings, strings with unbalanced brackets
\* and the empty list included, a call returns a value of the function's
\* result type (null for "no match" and "no name") and raises no error.
C24_CoreFunctionsAreTotal ==
  pc = "returned" => IsResultOf(returned.fn, returned.value)

\* a filename whose only bracket is never closed: the bracket is the name
C24_Witness ==
  /\ ExtractedShowName
  /\ args.filename = <<"[", "s", "1", "e", "2">>
  /\ returned.value = <<"[">>

\* ------------------------------------------------------------------------
\* Everything together: calls of the library and runs of the CLI
\* ------------------------------------------------------------------------

Init == InitLib \/ InitInfer \/ InitMatch \/ InitConflicts \/ InitMain

Next == NextLib \/ NextInfer \/ NextMatch \/ NextConflicts \/ NextMain

Spec == Init /\ [][Next]_vars

====
